---- MODULE Spec2Model ----
(***************************************************************************)
(* A model of the text-to-scene compiler of                                *)
(* skills/seer/scripts/excalidraw_from_text.py.                            *)
(*                                                                         *)
(* Strings are sequences of one-character strings, so that splitting,      *)
(* trimming and prefix matching are computed rather than assumed.          *)
(* Coordinates are integers: the source stores floats, but every stored    *)
(* coordinate has passed through _round_to and is integral.                *)
(***************************************************************************)
EXTENDS Integers, Sequences, FiniteSets, TLC

VARIABLES
    pc,        \* position of the process: idle / layout / validate / finish / returned / raised, or call / done
    ID_RNG,    \* module global _ID_RNG: the identifier generator, or not live
    NOW_MS,    \* module global _NOW_MS: the simulated clock, or not live
    inp,       \* arguments of the build_scene call in progress (or last made)
    bld,       \* locals of the build_scene call in progress
    out,       \* what the last build_scene call gave its caller
    pinned,    \* an earlier returned document kept by the caller, with its arguments
    arg,       \* argument of the pure function under test
    res        \* its result

vars == <<pc, ID_RNG, NOW_MS, inp, bld, out, pinned, arg, res>>

(***************************************************************************)
(* Characters and strings                                                  *)
(***************************************************************************)
LowerLetters == <<"a","b","c","d","e","f","g","h","i","j","k","l","m",
                  "n","o","p","q","r","s","t","u","v","w","x","y","z">>
UpperLetters == <<"A","B","C","D","E","F","G","H","I","J","K","L","M",
                  "N","O","P","Q","R","S","T","U","V","W","X","Y","Z">>
DigitChars == <<"0","1","2","3","4","5","6","7","8","9">>

RangeOf(s) == {s[i] : i \in 1..Len(s)}

IndexIn(c, s) == IF \E i \in 1..Len(s) : s[i] = c
                 THEN CHOOSE i \in 1..Len(s) : s[i] = c
                 ELSE 0

\* str.lower() and str.upper() on one character
LowerChar(c) == IF IndexIn(c, UpperLetters) > 0 THEN LowerLetters[IndexIn(c, UpperLetters)] ELSE c
UpperChar(c) == IF IndexIn(c, LowerLetters) > 0 THEN UpperLetters[IndexIn(c, LowerLetters)] ELSE c
Lower(s) == [i \in 1..Len(s) |-> LowerChar(s[i])]
Upper(s) == [i \in 1..Len(s) |-> UpperChar(s[i])]

\* U+017F, the long s, one character: str.lower() leaves it as it is, and under
\* re.IGNORECASE it matches "s"
LongS == "long s"
\* what a character matches under (?i)
FoldChar(c) == IF c = LongS THEN "s" ELSE LowerChar(c)
Fold(s) == [i \in 1..Len(s) |-> FoldChar(s[i])]

\* \s of the regular expressions and the characters str.strip() removes
IsSpace(c) == c \in {" ", "\n", "\t"}
\* \w of the regular expressions
IsWordChar(c) == c \in RangeOf(LowerLetters) \cup RangeOf(UpperLetters) \cup RangeOf(DigitChars) \cup {"_", LongS}

Drop(s, n) == SubSeq(s, n + 1, Len(s))
Take(s, n) == SubSeq(s, 1, n)

RECURSIVE LStripSet(_, _)
LStripSet(s, cs) == IF s # <<>> /\ Head(s) \in cs THEN LStripSet(Tail(s), cs) ELSE s
RECURSIVE RStripSet(_, _)
RStripSet(s, cs) == IF s # <<>> /\ s[Len(s)] \in cs THEN RStripSet(Take(s, Len(s) - 1), cs) ELSE s
StripSet(s, cs) == RStripSet(LStripSet(s, cs), cs)

Spaces == {" ", "\n", "\t"}
LStrip(s) == LStripSet(s, Spaces)
Strip(s) == StripSet(s, Spaces)

StartsWith(s, p) == Len(s) >= Len(p) /\ Take(s, Len(p)) = p

\* substring test: `p in s`
Contains(s, p) == \E i \in 0..(Len(s) - Len(p)) : SubSeq(s, i + 1, i + Len(p)) = p

\* split at every character of cs (empty pieces kept)
RECURSIVE SplitOn(_, _, _)
SplitOn(s, cs, cur) ==
    IF s = <<>> THEN <<cur>>
    ELSE IF Head(s) \in cs THEN <<cur>> \o SplitOn(Tail(s), cs, <<>>)
    ELSE SplitOn(Tail(s), cs, Append(cur, Head(s)))

\* [p.strip() for p in pieces if p.strip()]
RECURSIVE StripNonEmpty(_)
StripNonEmpty(ps) ==
    IF ps = <<>> THEN <<>>
    ELSE IF Strip(Head(ps)) = <<>> THEN StripNonEmpty(Tail(ps))
    ELSE <<Strip(Head(ps))>> \o StripNonEmpty(Tail(ps))

\* the sequence seq with el in place of its k-th element (seq[k] = el)
replace_at(seq, k, el) == [i \in 1..Len(seq) |-> IF i = k THEN el ELSE seq[i]]

\* the elements s[i] with keep[i], in their order
RECURSIVE keep_where(_, _)
keep_where(s, keep) ==
    IF s = <<>> THEN <<>>
    ELSE (IF keep[1] THEN <<Head(s)>> ELSE <<>>)
         \o keep_where(Tail(s), [i \in 1..(Len(s) - 1) |-> keep[i + 1]])

RECURSIVE Join(_, _)
Join(ps, sep) ==
    IF ps = <<>> THEN <<>>
    ELSE IF Len(ps) = 1 THEN Head(ps)
    ELSE Head(ps) \o sep \o Join(Tail(ps), sep)

\* decimal digits of a natural number, as f"{n}" writes them
RECURSIVE ToDec(_)
ToDec(n) == IF n < 10 THEN <<DigitChars[n + 1]>> ELSE ToDec(n \div 10) \o <<DigitChars[(n % 10) + 1]>>

(***************************************************************************)
(* Phrase extractor                                                        *)
(***************************************************************************)
\* text.splitlines(), for the line break "\n"
splitlines(text) == SplitOn(text, {"\n"}, <<>>)

BulletChars == {"-", "*"}

\* re.sub(r"^[-*•]\s*", "", ln).strip()
strip_bullet(ln) == IF ln # <<>> /\ Head(ln) \in BulletChars THEN Strip(Tail(ln)) ELSE Strip(ln)

\* re.split(r"\.\s+", text): cut at each "." that white space follows
RECURSIVE split_sentences(_, _)
split_sentences(s, cur) ==
    IF s = <<>> THEN <<cur>>
    ELSE IF Head(s) = "." /\ Len(s) >= 2 /\ IsSpace(s[2])
         THEN <<cur>> \o split_sentences(LStrip(Tail(s)), <<>>)
    ELSE split_sentences(Tail(s), Append(cur, Head(s)))

iter_phrases_bullets(raw_lines) == [i \in 1..Len(raw_lines) |-> strip_bullet(raw_lines[i])]

iter_phrases(text) ==
    LET raw_lines == StripNonEmpty(splitlines(text))
        parts == StripNonEmpty(SplitOn(text, {";", "|"}, <<>>))
    IN  IF Len(raw_lines) >= 2 THEN iter_phrases_bullets(raw_lines)
        ELSE IF Len(parts) = 1 THEN StripNonEmpty(split_sentences(text, <<>>))
        ELSE parts

(***************************************************************************)
(* Component classifier                                                    *)
(***************************************************************************)
\* the string literals of the source the model spells out; "_" is the ellipsis
WORD ==
    [add |-> <<"a","d","d"," ">>,
     create |-> <<"c","r","e","a","t","e"," ">>,
     Screen |-> <<"S","c","r","e","e","n">>,
     Section |-> <<"S","e","c","t","i","o","n">>,
     chips |-> <<"c","h","i","p","s">>,
     Tab |-> <<"T","a","b">>,
     Input |-> <<"I","n","p","u","t">>,
     Image |-> <<"I","m","a","g","e">>,
     lib_colon |-> <<"l","i","b",":"," ">>,
     more_omitted |-> <<"(","m","o","r","e"," ","o","m","i","t","t","e","d","_",")">>,
     section_title |-> <<"s","e","c","t","i","o","n"," ","t","i","t","l","e">>,
     Select |-> <<"S","e","l","e","c","t","_">>,
     Enter_text |-> <<"E","n","t","e","r"," ","t","e","x","t","_">>]

\* the tuple COMPONENT_TYPES, in its order: the name of a type and its spelling
COMPONENT_TYPES ==
    << [name |-> "screen", word |-> <<"s","c","r","e","e","n">>],
       [name |-> "header", word |-> <<"h","e","a","d","e","r">>],
       [name |-> "tabs", word |-> <<"t","a","b","s">>],
       [name |-> "section", word |-> <<"s","e","c","t","i","o","n">>],
       [name |-> "text", word |-> <<"t","e","x","t">>],
       [name |-> "input", word |-> <<"i","n","p","u","t">>],
       [name |-> "button", word |-> <<"b","u","t","t","o","n">>],
       [name |-> "dropdown", word |-> <<"d","r","o","p","d","o","w","n">>],
       [name |-> "textarea", word |-> <<"t","e","x","t","a","r","e","a">>],
       [name |-> "checkbox", word |-> <<"c","h","e","c","k","b","o","x">>],
       [name |-> "radio", word |-> <<"r","a","d","i","o">>],
       [name |-> "toggle", word |-> <<"t","o","g","g","l","e">>],
       [name |-> "chips", word |-> <<"c","h","i","p","s">>],
       [name |-> "card", word |-> <<"c","a","r","d">>],
       [name |-> "list", word |-> <<"l","i","s","t">>],
       [name |-> "image", word |-> <<"i","m","a","g","e">>],
       [name |-> "divider", word |-> <<"d","i","v","i","d","e","r">>],
       [name |-> "footer", word |-> <<"f","o","o","t","e","r">>],
       [name |-> "lib", word |-> <<"l","i","b">>],
       [name |-> "library", word |-> <<"l","i","b","r","a","r","y">>] >>

TypeNames == {COMPONENT_TYPES[i].name : i \in 1..Len(COMPONENT_TYPES)}
TypeWord(name) == COMPONENT_TYPES[CHOOSE i \in 1..Len(COMPONENT_TYPES) : COMPONENT_TYPES[i].name = name].word
\* the type a spelling names; a spelling outside the tuple names none of its types
type_named(w) ==
    IF \E i \in 1..Len(COMPONENT_TYPES) : COMPONENT_TYPES[i].word = w
    THEN COMPONENT_TYPES[CHOOSE i \in 1..Len(COMPONENT_TYPES) : COMPONENT_TYPES[i].word = w].name
    ELSE "unlisted"

\* what follows the type word under \s*[:\-]\s*(.*)$ : the separator, then a value
\* on one line (a line break only as the very last character)
prefix_rest_ok(rest) ==
    /\ rest # <<>>
    /\ Head(rest) \in {":", "-"}
    /\ LET v == LStrip(Tail(rest))
       IN  \A i \in 1..Len(v) : v[i] = "\n" => i = Len(v)

\* the alternatives of the prefix grammar that match the phrase
prefix_matches(phrase) ==
    LET p == LStrip(phrase)
        lp == Fold(p)
    IN  {i \in 1..Len(COMPONENT_TYPES) :
            /\ StartsWith(lp, COMPONENT_TYPES[i].word)
            /\ prefix_rest_ok(LStrip(Drop(p, Len(COMPONENT_TYPES[i].word))))}

Min(S) == CHOOSE x \in S : \A y \in S : x <= y
Max(S) == CHOOSE x \in S : \A y \in S : x >= y

\* re.sub(r"(?i)\b(w1|w2|...)\b", "", s), or with paren the words between "("
\* and ")" and no \b: i is the position looked at
RECURSIVE remove_words(_, _, _, _)
remove_words(s, i, words, paren) ==
    LET pat(k) == IF paren THEN <<"(">> \o words[k] \o <<")">> ELSE words[k]
        hit(k) == /\ i + Len(pat(k)) - 1 <= Len(s)
                  /\ Fold(SubSeq(s, i, i + Len(pat(k)) - 1)) = pat(k)
                  /\ \/ paren
                     \/ /\ (i = 1 \/ ~IsWordChar(s[i - 1]))
                        /\ (i + Len(pat(k)) > Len(s) \/ ~IsWordChar(s[i + Len(pat(k))]))
        hits == {k \in 1..Len(words) : hit(k)}
    IN  IF i > Len(s) THEN <<>>
        ELSE IF hits # {} THEN remove_words(s, i + Len(pat(Min(hits))), words, paren)
        ELSE <<s[i]>> \o remove_words(s, i + 1, words, paren)

parse_component(phrase) ==
    LET ms == prefix_matches(phrase)
        lowered == Lower(phrase)
    IN  IF ms # {}
        THEN LET i == Min(ms)
                 p == LStrip(phrase)
                 rest == LStrip(Drop(p, Len(COMPONENT_TYPES[i].word)))
             IN  [type |-> type_named(Lower(Take(p, Len(COMPONENT_TYPES[i].word)))), value |-> Strip(Tail(rest))]
        ELSE IF StartsWith(lowered, WORD.add)
        THEN [type |-> "text", value |-> Strip(Drop(phrase, 3))]
        ELSE IF StartsWith(lowered, WORD.create)
        THEN [type |-> "text", value |-> Strip(Drop(phrase, 6))]
        ELSE IF Contains(lowered, TypeWord("button"))
        THEN LET label == StripSet(remove_words(phrase, 1, <<TypeWord("button")>>, FALSE), {" ", ":", ",", "-"})
             IN  [type |-> "button", value |-> IF label # <<>> THEN label ELSE phrase]
        ELSE [type |-> "text", value |-> phrase]

(***************************************************************************)
(* Screen grouper                                                          *)
(***************************************************************************)
\* f"Screen {len(screens)+1}"
screen_n(screens) == WORD.Screen \o <<" ">> \o ToDec(Len(screens) + 1)

ScreenSpec(name, phrases) == [name |-> name, phrases |-> phrases]

\* current_name is None
NoName == <<>>

\* a flush that forgets a named screen without phrases
flush_screen_drops_empty(screens, current_name, current) ==
    IF current # <<>>
    THEN Append(screens, ScreenSpec(IF current_name # NoName THEN current_name ELSE screen_n(screens), current))
    ELSE screens

\* the flush `if current_name is not None or current: screens.append(...)`
flush_screen(screens, current_name, current) ==
    IF current_name # NoName \/ current # <<>>
    THEN Append(screens, ScreenSpec(IF current_name # NoName THEN current_name ELSE screen_n(screens), current))
    ELSE screens

\* the loop of _group_screens over phrases[i..], then the final flush
RECURSIVE group_screens_loop(_, _, _, _, _)
group_screens_loop(phrases, i, screens, current_name, current) ==
    IF i > Len(phrases) THEN flush_screen(screens, current_name, current)
    ELSE LET named(flushed, value) ==
                 group_screens_loop(phrases, i + 1, flushed, IF value # <<>> THEN value ELSE screen_n(flushed), <<>>)
             parsed(c) ==
                 IF c.type = "screen"
                 THEN named(flush_screen(screens, current_name, current), Strip(c.value))
                 ELSE group_screens_loop(phrases, i + 1, screens, current_name, Append(current, phrases[i]))
         IN  parsed(parse_component(phrases[i]))

group_screens(phrases) ==
    LET or_implicit(screens) == IF screens = <<>> THEN <<ScreenSpec(WORD.Screen, phrases)>> ELSE screens
    IN  or_implicit(group_screens_loop(phrases, 1, <<>>, NoName, <<>>))

(***************************************************************************)
(* Numbers                                                                 *)
(***************************************************************************)
\* Python's round(a / b) for integers a and b > 0: to the nearest integer, a tie
\* to the even one
RoundDiv(a, b) ==
    LET q == a \div b
        r == a % b
    IN  IF 2 * r < b THEN q
        ELSE IF 2 * r > b THEN q + 1
        ELSE IF q % 2 = 0 THEN q ELSE q + 1

\* rounding in which a tie goes away from zero
round_to_half_away(num, den, step) ==
    LET away(a, b) == IF a >= 0 THEN (2 * a + b) \div (2 * b) ELSE -((2 * (-a) + b) \div (2 * b))
    IN  IF step <= 0 THEN away(num, den) ELSE away(num, den * step) * step

\* _round_to(num / den, step), for den > 0
round_to(num, den, step) ==
    IF step <= 0 THEN RoundDiv(num, den) ELSE RoundDiv(num, den * step) * step

\* int(num / den): truncation toward zero
IntOf(num, den) == IF num >= 0 THEN num \div den ELSE -((-num) \div den)

MaxOf(a, b) == IF a >= b THEN a ELSE b
MinOf(a, b) == IF a <= b THEN a ELSE b

(***************************************************************************)
(* Themes and presets                                                      *)
(***************************************************************************)
THEMES ==
    [classic |-> [name |-> "classic", background |-> "#ffffff", container |-> "#f5f5f5",
                  border |-> "#9e9e9e", text |-> "#424242", muted_text |-> "#666666"],
     blueprint |-> [name |-> "blueprint", background |-> "#1a237e", container |-> "#3949ab",
                    border |-> "#7986cb", text |-> "#ffffff", muted_text |-> "#c5cae9"]]

PRESETS ==
    [mobile |-> [name |-> "mobile", width |-> 390, height |-> 844, grid_size |-> 20],
     desktop |-> [name |-> "desktop", width |-> 1440, height |-> 900, grid_size |-> 20],
     tablet |-> [name |-> "tablet", width |-> 834, height |-> 1194, grid_size |-> 20]]

(***************************************************************************)
(* Identifiers, random stamps and the clock                                *)
(*                                                                         *)
(* A generator is its key and the number of values drawn so far; the key   *)
(* is <<"seed", s>> for random.Random(s) and <<"os", e>> for               *)
(* random.Random(None), seeded from the entropy e of the system.  The n-th *)
(* value of the generator of a key is written <<key, n>> (identifiers      *)
(* carry a tag in front).  Two draws are equal exactly when key and n are. *)
(***************************************************************************)
\* seed=None
NoSeed == -1
\* random.Random(seed), e the entropy of the system
Random(seed, e) == [live |-> TRUE, key |-> IF seed = NoSeed THEN <<"os", e>> ELSE <<"seed", seed>>, n |-> 0]

\* values of `id`, `containerId` and group ids; NoId is None, "" or a missing key
NoId == <<>>

RECURSIVE Xor(_, _)
Xor(a, b) ==
    IF a = 0 THEN b
    ELSE IF b = 0 THEN a
    ELSE 2 * Xor(a \div 2, b \div 2) + (IF (a % 2) = (b % 2) THEN 0 ELSE 1)

\* 0x5EED5EED
IdSeedMask == 1592614637
\* Times are written in milliseconds past 1_700_000_000_000, the origin of the
\* simulated clock.

\* _new_id(): drawn from _ID_RNG when it is live, else from uuid4 (entropy u,
\* a fresh value at every call)
new_id(idrng, u) == IF idrng.live THEN <<"rng", idrng.key, idrng.n>> ELSE <<"uuid", u, idrng.n>>

\* _now_ms(): the simulated clock when it is live, else the wall clock (w)
now_ms(now, w) == IF now.live THEN now.ms ELSE w

\* The context every constructor draws from: the global identifier generator,
\* the builder's generator (builder._rng) and the global clock; and the objects
\* the layout can write to besides its own: catalog is the LibraryItem records
\* as they are now, alias the id of the item whose element objects the group in
\* hand is made of (NoId when the group is made of objects of its own).
Ctx(idrng, rng, now, catalog) == [idrng |-> idrng, rng |-> rng, now |-> now, catalog |-> catalog, alias |-> NoId]
ctx_new_id(c) == new_id(c.idrng, 0)
ctx_seed(c, k) == <<c.rng.key, c.rng.n + k>>
ctx_now(c) == now_ms(c.now, 0)

\* an identifier generator that does not advance
ctx_after_ids_stuck(c, ids, seeds) == [c EXCEPT !.rng.n = @ + seeds]

\* the context after `ids` identifiers and `seeds` stamps were drawn
ctx_after(c, ids, seeds) == [c EXCEPT !.idrng.n = @ + ids, !.rng.n = @ + seeds]

(***************************************************************************)
(* Scene builder                                                           *)
(*                                                                         *)
(* An element keeps the fields the layout reads or writes.  boundElements  *)
(* None and [] are both <<>>; customData is its two keys seerSource and    *)
(* seerLabel ("" when the key is missing); fontSize is the fraction        *)
(* <<numerator, denominator>>, <<0, 1>> when the key is missing;           *)
(* startBinding and endBinding are the elementId of the binding (NoId for  *)
(* None).  x and y are whole pixels and xfrac, yfrac the fractions of a    *)
(* pixel to add to them: <<0, 1>> in every element the builder or          *)
(* instantiate_library_item has written, any fraction in a catalog.  Fields *)
(* that are constant in the builder (angle, strokeStyle, version, link,    *)
(* fontFamily, ...), copies of other fields (originalText, baseline,       *)
(* points of a line), strokeWidth, roughness and roundness are left out.   *)
(***************************************************************************)
Builder(grid, theme, fidelity) == [grid |-> MaxOf(1, grid), theme |-> theme, fidelity |-> fidelity]

snap(b, num, den) == round_to(num, den, b.grid)

shape_style(b) ==
    IF b.fidelity = "low"
    THEN [strokeColor |-> b.theme.border, backgroundColor |-> "transparent", fillStyle |-> "hachure"]
    ELSE [strokeColor |-> b.theme.border, backgroundColor |-> b.theme.container, fillStyle |-> "solid"]

\* text.splitlines() or [""]
text_lines(text) ==
    LET ps == splitlines(text)
        ls == IF ps[Len(ps)] = <<>> THEN Take(ps, Len(ps) - 1) ELSE ps
    IN  IF ls = <<>> THEN << <<>> >> ELSE ls

text_size(text, font_size) ==
    LET measured(lines, max_len) ==
            [w |-> IntOf(MaxOf(24 * 100, MinOf(2400 * 100, max_len * font_size * 62)), 100),
             h |-> IntOf(MaxOf((font_size + 8) * 100, Len(lines) * font_size * 135), 100)]
        longest(lines) == measured(lines, Max({Len(lines[i]) : i \in 1..Len(lines)}))
    IN  longest(text_lines(text))

calc_label_width(text, font_size) == round_to(Len(text) * font_size * 6 + 200, 10, 10)

\* builder.rect: draws one identifier, then two stamps
rect(b, c, xn, xd, yn, yd, w, h, seer_label) ==
    LET style == shape_style(b)
    IN  [id |-> ctx_new_id(c), type |-> "rectangle",
         x |-> snap(b, xn, xd), y |-> snap(b, yn, yd), width |-> snap(b, w, 1), height |-> snap(b, h, 1),
         strokeColor |-> style.strokeColor, backgroundColor |-> style.backgroundColor,
         fillStyle |-> style.fillStyle, opacity |-> 100,
         groupIds |-> <<>>, seed |-> ctx_seed(c, 0), versionNonce |-> ctx_seed(c, 1),
         isDeleted |-> FALSE, boundElements |-> <<>>, updated |-> ctx_now(c), locked |-> FALSE,
         seerSource |-> "", seerLabel |-> seer_label,
         text |-> <<>>, fontSize |-> <<0, 1>>, textAlign |-> "", containerId |-> NoId,
         startBinding |-> NoId, endBinding |-> NoId, xfrac |-> <<0, 1>>, yfrac |-> <<0, 1>>]

\* width=None / height=None of builder.text
NoSize == -1

\* builder.text: draws one identifier, then two stamps
text_el(b, c, xn, xd, yn, yd, text, font_size, color, align, container_id, group_ids, width, height) ==
    LET estimate == width = NoSize \/ height = NoSize
        sized(sz) ==
            [id |-> ctx_new_id(c), type |-> "text",
             x |-> snap(b, xn, xd), y |-> snap(b, yn, yd),
             width |-> round_to(IF estimate /\ (width = NoSize \/ width = 0) THEN sz.w ELSE width, 1, 10),
             height |-> round_to(IF estimate /\ (height = NoSize \/ height = 0) THEN sz.h ELSE height, 1, 10),
             strokeColor |-> color, backgroundColor |-> "transparent",
             fillStyle |-> "hachure", opacity |-> 100,
             groupIds |-> group_ids, seed |-> ctx_seed(c, 0), versionNonce |-> ctx_seed(c, 1),
             isDeleted |-> FALSE, boundElements |-> <<>>, updated |-> ctx_now(c), locked |-> FALSE,
             seerSource |-> "", seerLabel |-> "",
             text |-> text, fontSize |-> <<font_size, 1>>, textAlign |-> align, containerId |-> container_id,
             startBinding |-> NoId, endBinding |-> NoId, xfrac |-> <<0, 1>>, yfrac |-> <<0, 1>>]
    IN  sized(text_size(text, font_size))

\* builder.line: draws one identifier, then two stamps
line_el(b, c, xn, xd, yn, yd, x2n, x2d, y2n, y2d) ==
    LET x0 == snap(b, xn, xd)
        y0 == snap(b, yn, yd)
        x1 == snap(b, x2n, x2d)
        y1 == snap(b, y2n, y2d)
    IN  [id |-> ctx_new_id(c), type |-> "line",
         x |-> x0, y |-> y0, width |-> x1 - x0, height |-> y1 - y0,
         strokeColor |-> b.theme.border, backgroundColor |-> "transparent",
         fillStyle |-> "hachure", opacity |-> 100,
         groupIds |-> <<>>, seed |-> ctx_seed(c, 0), versionNonce |-> ctx_seed(c, 1),
         isDeleted |-> FALSE, boundElements |-> <<>>, updated |-> ctx_now(c), locked |-> FALSE,
         seerSource |-> "", seerLabel |-> "",
         text |-> <<>>, fontSize |-> <<0, 1>>, textAlign |-> "", containerId |-> NoId,
         startBinding |-> NoId, endBinding |-> NoId, xfrac |-> <<0, 1>>, yfrac |-> <<0, 1>>]

\* builder.labeled_rect: draws the group identifier, then the rectangle, then the
\* text; returns the pair <<rect, txt>>
labeled_rect(b, c, x, y, w, h, text, font_size, seer_label) ==
    LET bound(r0, group_id, txt) ==
            << [r0 EXCEPT !.groupIds = <<group_id>>, !.boundElements = << [type |-> "text", id |-> txt.id] >>], txt >>
        labelled(r0, group_id, label_width, label_height) ==
            bound(r0, group_id,
                  text_el(b, ctx_after(c, 2, 2),
                          2 * r0.x + r0.width - label_width, 2,
                          2 * r0.y + r0.height - label_height, 2,
                          text, font_size, b.theme.text, "center", r0.id, <<group_id>>,
                          label_width, label_height))
    IN  labelled(rect(b, ctx_after(c, 1, 0), x, 1, y, 1, w, h, seer_label), ctx_new_id(c),
                 calc_label_width(text, font_size), round_to(font_size * 16, 10, 10))

\* _set_rect_bounds: the bounds rounded to whole pixels, not to the grid
set_rect_bounds(r, x, y, w, h) ==
    [r EXCEPT !.x = round_to(x, 1, 1), !.y = round_to(y, 1, 1),
              !.width = round_to(w, 1, 1), !.height = round_to(h, 1, 1)]

(***************************************************************************)
(* Fragment catalog                                                        *)
(*                                                                         *)
(* A catalog is [loaded, items]: loaded is FALSE for library = None, items *)
(* the LibraryItems in catalog order, each [name, id, elements].  A lookup *)
(* returns the position of the item, 0 for None.                           *)
(***************************************************************************)
NoLibrary == [loaded |-> FALSE, items |-> <<>>]

bbox_for_element(el) ==
    [x0 |-> MinOf(el.x, el.x + el.width), y0 |-> MinOf(el.y, el.y + el.height),
     x1 |-> MaxOf(el.x, el.x + el.width), y1 |-> MaxOf(el.y, el.y + el.height)]

bbox_for_elements(els) ==
    IF els = <<>> THEN [x0 |-> 0, y0 |-> 0, x1 |-> 0, y1 |-> 0]
    ELSE LET bs == [i \in 1..Len(els) |-> bbox_for_element(els[i])]
         IN  [x0 |-> Min({bs[i].x0 : i \in 1..Len(els)}), y0 |-> Min({bs[i].y0 : i \in 1..Len(els)}),
              x1 |-> Max({bs[i].x1 : i \in 1..Len(els)}), y1 |-> Max({bs[i].y1 : i \in 1..Len(els)})]

\* ExcalidrawLibrary.find: _by_name keeps the last item of a name
\* a lookup by substring alone
find_by_substring(library, query) ==
    LET q == Lower(Strip(query))
        items == library.items
        partial == {i \in 1..Len(items) : Contains(Lower(items[i].name), q)}
    IN  IF q = <<>> \/ partial = {} THEN 0 ELSE Min(partial)

find(library, query) ==
    LET q == Lower(Strip(query))
        items == library.items
        exact == {i \in 1..Len(items) : items[i].name # <<>> /\ Lower(Strip(items[i].name)) = q}
        partial == {i \in 1..Len(items) : Contains(Lower(items[i].name), q)}
    IN  IF q = <<>> THEN 0
        ELSE IF exact # {} THEN Max(exact)
        ELSE IF partial # {} THEN Min(partial)
        ELSE 0

\* re.search(r"\b(w1|w2|...)\b", s)
has_word(s, words) ==
    \E k \in 1..Len(words) : \E i \in 1..Len(s) :
        /\ i + Len(words[k]) - 1 <= Len(s)
        /\ SubSeq(s, i, i + Len(words[k]) - 1) = words[k]
        /\ (i = 1 \/ ~IsWordChar(s[i - 1]))
        /\ (i + Len(words[k]) > Len(s) \/ ~IsWordChar(s[i + Len(words[k])]))

looks_truthy(s) == has_word(s, << <<"o","n">>, <<"y","e","s">>, <<"t","r","u","e">>, <<"e","n","a","b","l","e","d">>, <<"c","h","e","c","k","e","d">>, <<"s","e","l","e","c","t","e","d">> >>)
looks_falsy(s) == has_word(s, << <<"o","f","f">>, <<"n","o">>, <<"f","a","l","s","e">>, <<"d","i","s","a","b","l","e","d">>, <<"u","n","c","h","e","c","k","e","d">>, <<"u","n","s","e","l","e","c","t","e","d">> >>)

DEFAULT_LIBRARY_COMPONENT_QUERIES(component_type) ==
    CASE component_type = "header" -> << <<"n","a","v","i","g","a","t","i","o","n"," ","b","a","r">> >>
      [] component_type = "button" -> << <<"b","u","t","t","o","n">>, <<"F","i","l","l","e","d"," ","b","u","t","t","o","n"," ","(","t","e","x","t"," ","o","n","l","y",")">>, <<"O","u","t","l","i","n","e","d"," ","b","u","t","t","o","n"," ","(","t","e","x","t"," ","o","n","l","y",")">> >>
      [] component_type = "input" -> << <<"t","e","x","t","f","i","e","l","d">>, <<"T","e","x","t"," ","f","i","e","l","d"," ","w","i","t","h"," ","p","l","a","c","e","h","o","l","d","e","r">>, <<"T","e","x","t"," ","f","i","e","l","d"," ","w","i","t","h"," ","t","e","x","t">>, <<"s","e","a","r","c","h">>, <<"S","e","a","r","c","h"," ","f","i","e","l","d">> >>
      [] component_type = "tabs" -> << <<"t","a","b","s">> >>
      [] component_type = "dropdown" -> << <<"d","r","o","p","d","o","w","n">>, <<"s","e","l","e","c","t">> >>
      [] component_type = "textarea" -> << <<"t","e","x","t","a","r","e","a">> >>
      [] component_type = "checkbox" -> << <<"c","h","e","c","k","b","o","x","-","o","f","f">>, <<"c","h","e","c","k","b","o","x","-","o","n">>, <<"C","h","e","c","k","b","o","x"," ","U","n","c","h","e","c","k","e","d">>, <<"C","h","e","c","k","b","o","x"," ","C","h","e","c","k","e","d">> >>
      [] component_type = "radio" -> << <<"r","a","d","i","o","b","u","t","t","o","n","-","o","f","f">> >>
      [] component_type = "toggle" -> << <<"t","o","g","g","l","e","-","o","f","f">> >>
      [] component_type = "chips" -> << <<"c","h","i","p","s">> >>
      [] component_type = "card" -> << <<"b","a","n","n","e","r">>, <<"c","a","r","o","u","s","e","l"," ","b","a","n","n","e","r">> >>
      [] component_type = "image" -> << <<"p","r","o","d","u","c","t"," ","i","m","a","g","e">>, <<"g","a","l","l","e","r","y","-","3","-","a">>, <<"g","a","l","l","e","r","y","-","3","-","b">>, <<"I","m","a","g","e"," ","p","l","a","c","e","h","o","l","d","e","r">>, <<"I","m","a","g","e"," ","p","l","a","c","e","h","o","l","d","e","r"," ","(","s","i","m","p","l","e",")">> >>
      [] component_type = "footer" -> << <<"t","a","b"," ","b","a","r">> >>
      [] OTHER -> <<>>

\* The queries _pick_library_item_for_component tries before the default ones,
\* in the order it tries them; label is already stripped and lower-cased.
pick_first_queries(component_type, label) ==
    LET on == label # <<>> /\ looks_truthy(label) /\ ~looks_falsy(label)
    IN  CASE component_type = "input" /\ label # <<>> ->
                << <<"t","e","x","t","f","i","e","l","d">>, <<"T","e","x","t"," ","f","i","e","l","d"," ","w","i","t","h"," ","p","l","a","c","e","h","o","l","d","e","r">>, <<"T","e","x","t"," ","f","i","e","l","d"," ","w","i","t","h"," ","t","e","x","t">> >>
                \o (IF Contains(label, <<"s","e","a","r","c","h">>)
                    THEN << <<"s","e","a","r","c","h">>, <<"S","e","a","r","c","h"," ","f","i","e","l","d">>, <<"S","e","a","r","c","h"," ","I","n","p","u","t">> >> ELSE <<>>)
          [] component_type = "header" -> << <<"n","a","v","i","g","a","t","i","o","n"," ","b","a","r">> >>
          [] component_type = "button" -> << <<"b","u","t","t","o","n">>, <<"F","i","l","l","e","d"," ","b","u","t","t","o","n"," ","(","t","e","x","t"," ","o","n","l","y",")">>, <<"O","u","t","l","i","n","e","d"," ","b","u","t","t","o","n"," ","(","t","e","x","t"," ","o","n","l","y",")">> >>
          [] component_type = "dropdown" -> << <<"d","r","o","p","d","o","w","n">>, <<"s","e","l","e","c","t">> >>
          [] component_type = "textarea" -> << <<"t","e","x","t","a","r","e","a">> >>
          [] component_type = "checkbox" ->
                (IF on THEN << <<"c","h","e","c","k","b","o","x","-","o","n">>, <<"C","h","e","c","k","b","o","x"," ","C","h","e","c","k","e","d">> >> ELSE <<>>) \o << <<"c","h","e","c","k","b","o","x","-","o","f","f">>, <<"C","h","e","c","k","b","o","x"," ","U","n","c","h","e","c","k","e","d">> >>
          [] component_type = "radio" ->
                (IF on THEN << <<"r","a","d","i","o","b","u","t","t","o","n","-","o","n">> >> ELSE <<>>) \o << <<"r","a","d","i","o","b","u","t","t","o","n","-","o","f","f">> >>
          [] component_type = "toggle" ->
                (IF on THEN << <<"t","o","g","g","l","e","-","o","n">> >> ELSE <<>>) \o << <<"t","o","g","g","l","e","-","o","f","f">> >>
          [] component_type = "chips" -> << <<"c","h","i","p","s">> >>
          [] component_type = "card" -> << <<"b","a","n","n","e","r">>, <<"c","a","r","o","u","s","e","l"," ","b","a","n","n","e","r">> >>
          [] component_type = "tabs" -> << <<"t","a","b","s">>, <<"t","a","b"," ","b","a","r">> >>
          [] component_type = "image" -> << <<"p","r","o","d","u","c","t"," ","i","m","a","g","e">>, <<"g","a","l","l","e","r","y","-","3","-","a">>, <<"g","a","l","l","e","r","y","-","3","-","b">>, <<"I","m","a","g","e"," ","p","l","a","c","e","h","o","l","d","e","r">> >>
          [] component_type = "footer" -> << <<"t","a","b"," ","b","a","r">> >>
          [] OTHER -> <<>>

\* the first query of qs that finds an item
RECURSIVE find_first(_, _)
find_first(library, qs) ==
    IF qs = <<>> THEN 0
    ELSE IF find(library, Head(qs)) # 0 THEN find(library, Head(qs))
    ELSE find_first(library, Tail(qs))

pick_library_item_for_component(library, component_type, label) ==
    find_first(library, pick_first_queries(component_type, Lower(Strip(label)))
                        \o DEFAULT_LIBRARY_COMPONENT_QUERIES(component_type))

(***************************************************************************)
(* Fragment text rewriting                                                 *)
(***************************************************************************)
\* by_id.get(id) for by_id = {el.get("id"): el for el in group}: the position of
\* the last element of that id, 0 for a miss
by_id(group, id) ==
    LET js == {j \in 1..Len(group) : group[j].id = id}
    IN  IF js = {} THEN 0 ELSE Max(js)

\* int(float(el.get("fontSize") or default))
font_size_of(el, default) == IF el.fontSize[1] = 0 THEN default ELSE IntOf(el.fontSize[1], el.fontSize[2])

\* float(_round_to(max(float(el.get("height") or 0), font_size * 1.6), 10))
label_height_of(el, font_size) == round_to(MaxOf(el.height * 10, font_size * 16), 10, 10)

\* max(24, min(int(w - grid * 2), _calc_label_width(text, font_size))), rounded to 10
fitted_label_width(b, w, text, font_size) ==
    round_to(MaxOf(24, MinOf(w - b.grid * 2, calc_label_width(text, font_size))), 1, 10)

text_indices(group) == {i \in 1..Len(group) : group[i].type = "text"}

\* _set_library_text on the element at position ti
set_library_text(b, group, ti, new_text) ==
    LET nt == Strip(new_text)
        target == group[ti]
        ci == by_id(group, target.containerId)
        font_size == font_size_of(target, 16)
    IN  IF nt = <<>> THEN group
        ELSE IF target.containerId # NoId
        THEN IF ci = 0 THEN replace_at(group, ti, [group[ti] EXCEPT !.text = nt])
             ELSE LET container == group[ci]
                      new_w == fitted_label_width(b, container.width, nt, font_size)
                  IN  IF target.textAlign = "center"
                      THEN replace_at(group, ti, [group[ti] EXCEPT !.text = nt, !.width = new_w,
                                         !.x = round_to(2 * container.x + container.width - new_w, 2, 1),
                                         !.y = round_to(2 * container.y + container.height
                                                            - (IF target.height = 0 THEN 20 ELSE target.height), 2, 1)])
                      ELSE replace_at(group, ti, [group[ti] EXCEPT !.text = nt, !.width = new_w,
                                         !.x = round_to(container.x + b.grid, 1, 1)])
        ELSE replace_at(group, ti, [group[ti] EXCEPT !.text = nt,
                           !.width = round_to(calc_label_width(nt, font_size), 1, 10),
                           !.height = label_height_of(target, font_size)])

\* sorted(range, key)[0] for keys that are pairs of integers (k1[i], k2[i]): the
\* first position of the least key
first_least(idxs, k1, k2) ==
    CHOOSE i \in idxs : \A j \in idxs :
        \/ k1[i] < k1[j]
        \/ k1[i] = k1[j] /\ k2[i] < k2[j]
        \/ k1[i] = k1[j] /\ k2[i] = k2[j] /\ i <= j

\* sorted(range, key): the positions idxs in ascending order of the key, ties in
\* their original order
RECURSIVE sorted_by(_, _, _)
sorted_by(idxs, k1, k2) ==
    IF idxs = {} THEN <<>>
    ELSE LET i == first_least(idxs, k1, k2)
         IN  <<i>> \o sorted_by(idxs \ {i}, k1, k2)

PreferredCaptions ==
    {<<"b","u","t","t","o","n">>, <<"s","e","a","r","c","h">>, <<"p","l","a","c","e","h","o","l","d","e","r">>, <<"t","e","x","t">>, <<"t","i","t","l","e">>, <<"l","a","b","e","l">>, <<"n","a","m","e">>}

\* a choice of the topmost text, of the widest among the topmost
rewrite_library_label_topmost(b, group, new_text) ==
    LET texts == text_indices(group)
        target == first_least(texts, [i \in texts |-> group[i].y], [i \in texts |-> -group[i].width])
    IN  IF Strip(new_text) = <<>> \/ texts = {} THEN group
        ELSE set_library_text(b, group, target, Strip(new_text))

\* _rewrite_library_label: the text of the highest score (s0, width), the first
\* of them on a tie
rewrite_library_label(b, group, new_text) ==
    LET texts == text_indices(group)
        s0 == [i \in texts |-> (IF Lower(Strip(group[i].text)) \in PreferredCaptions THEN 2 ELSE 0)
                                + (IF group[i].containerId # NoId THEN 1 ELSE 0)]
        target == first_least(texts, [i \in texts |-> -s0[i]], [i \in texts |-> -group[i].width])
    IN  IF Strip(new_text) = <<>> \/ texts = {} THEN group
        ELSE set_library_text(b, group, target, Strip(new_text))

\* apply _set_library_text to the k-th text of order with the k-th label
RECURSIVE set_texts_in_order(_, _, _, _, _)
set_texts_in_order(b, group, order, labels, k) ==
    IF k > Len(order) \/ k > Len(labels) THEN group
    ELSE set_texts_in_order(b, set_library_text(b, group, order[k], labels[k]), order, labels, k + 1)

rewrite_library_tabs_labels(b, group, labels) ==
    LET ls == StripNonEmpty(labels)
        texts == text_indices(group)
        order == sorted_by(texts, [i \in texts |-> group[i].x], [i \in texts |-> 0])
    IN  IF ls = <<>> \/ texts = {} THEN group
        ELSE set_texts_in_order(b, group, order, ls, 1)

rewrite_library_section_title(b, group, title) ==
    LET t == Strip(title)
        texts == text_indices(group)
        rest_hidden(g1, order) ==
            IF Len(order) > 1 THEN replace_at(g1, order[2], [g1[order[2]] EXCEPT !.opacity = 0]) ELSE g1
        retitled(order) == rest_hidden(set_library_text(b, group, order[1], Upper(t)), order)
    IN  IF t = <<>> \/ texts = {} THEN group
        ELSE retitled(sorted_by(texts, [i \in texts |-> group[i].y], [i \in texts |-> group[i].x]))

\* the loop of _rewrite_library_footer_labels from the idx-th text (0-based) on
RECURSIVE footer_labels_loop(_, _, _, _)
footer_labels_loop(group, order, labels, idx) ==
    IF idx >= Len(order) THEN group
    ELSE LET i == order[idx + 1]
             el == group[i]
             font_size == font_size_of(el, 12)
             new_text == labels[idx + 1]
             new_w == round_to(calc_label_width(new_text, font_size), 1, 10)
             g1 == IF idx >= Len(labels)
                   THEN replace_at(group, i, [group[i] EXCEPT !.opacity = 0])
                   ELSE replace_at(group, i, [group[i] EXCEPT !.text = new_text, !.width = new_w,
                                      !.height = label_height_of(el, font_size),
                                      !.x = round_to(2 * el.x + el.width - new_w, 2, 1)])
         IN  footer_labels_loop(g1, order, labels, idx + 1)

rewrite_library_footer_labels(b, group, labels) ==
    LET ls == StripNonEmpty(labels)
        texts == text_indices(group)
        order == sorted_by(texts, [i \in texts |-> group[i].x], [i \in texts |-> 0])
    IN  IF ls = <<>> \/ texts = {} THEN group
        ELSE footer_labels_loop(group, order, ls, 0)

rewrite_library_label_and_placeholder(b, group, label, placeholder) ==
    LET l == Strip(label)
        p == Strip(placeholder)
        texts == text_indices(group)
        with_placeholder(g1, placeholder_targets) ==
            IF p # <<>> /\ placeholder_targets # {}
            THEN set_library_text(b, g1,
                                  first_least(placeholder_targets, [i \in placeholder_targets |-> -g1[i].width],
                                              [i \in placeholder_targets |-> 0]), p)
            ELSE g1
        with_label(g1) == with_placeholder(g1, {i \in texts : g1[i].containerId # NoId})
        labelled(label_targets) ==
            IF l # <<>> /\ label_targets # {}
            THEN set_library_text(b, group,
                                  first_least(label_targets, [i \in label_targets |-> group[i].y],
                                              [i \in label_targets |-> -group[i].width]), l)
            ELSE [i \in 1..Len(group) |->
                      IF i \in label_targets THEN [group[i] EXCEPT !.opacity = 0] ELSE group[i]]
    IN  IF (l = <<>> /\ p = <<>>) \/ texts = {} THEN group
        ELSE with_label(labelled({i \in texts : group[i].containerId = NoId}))

(***************************************************************************)
(* Fragment instantiation                                                  *)
(***************************************************************************)
\* The first loop of instantiate_library_item from element i on: id_map and
\* group_map are the maps so far, idrng the identifier generator.  An element
\* draws for its own id first (again for an id already mapped), then for each
\* of its group ids not mapped yet.
\* group ids that are mapped to themselves
draw_group_ids_kept(gids, maps, idrng) ==
    [maps |-> [maps EXCEPT !.group_map = [g \in {gids[j] : j \in 1..Len(gids)} \ {NoId} |-> g] @@ @], idrng |-> idrng]

RECURSIVE draw_group_ids(_, _, _)
draw_group_ids(gids, maps, idrng) ==
    IF gids = <<>> THEN [maps |-> maps, idrng |-> idrng]
    ELSE IF Head(gids) # NoId /\ Head(gids) \notin DOMAIN maps.group_map
         THEN draw_group_ids(Tail(gids),
                             [maps EXCEPT !.group_map = (Head(gids) :> new_id(idrng, 0)) @@ @],
                             [idrng EXCEPT !.n = @ + 1])
    ELSE draw_group_ids(Tail(gids), maps, idrng)

RECURSIVE draw_ids(_, _, _, _)
draw_ids(els, i, maps, idrng) ==
    IF i > Len(els) THEN [maps |-> maps, idrng |-> idrng]
    ELSE LET own == IF els[i].id # NoId
                    THEN [maps |-> [maps EXCEPT !.id_map = (els[i].id :> new_id(idrng, 0)) @@ @],
                          idrng |-> [idrng EXCEPT !.n = @ + 1]]
                    ELSE [maps |-> maps, idrng |-> idrng]
             grp == draw_group_ids(els[i].groupIds, own.maps, own.idrng)
         IN  draw_ids(els, i + 1, grp.maps, grp.idrng)

\* float(el["x"]) of an element of a catalog, as a fraction
raw_coord(v, frac) == [num |-> v * frac[2] + frac[1], den |-> frac[2]]

\* the least of a set of fractions
least_coord(fs) == CHOOSE f \in fs : \A g \in fs : f.num * g.den <= g.num * f.den

\* min_x, min_y of line 530: the corner _bbox_for_elements finds for the copy
bbox_corner(els) ==
    IF els = <<>> THEN [x |-> raw_coord(0, <<0, 1>>), y |-> raw_coord(0, <<0, 1>>)]
    ELSE [x |-> least_coord({raw_coord(MinOf(els[i].x, els[i].x + els[i].width), els[i].xfrac) : i \in 1..Len(els)}),
          y |-> least_coord({raw_coord(MinOf(els[i].y, els[i].y + els[i].height), els[i].yfrac) : i \in 1..Len(els)})]

\* builder.snap(x) - min_x
snap_delta(b, x, corner) == [num |-> snap(b, x, 1) * corner.den - corner.num, den |-> corner.den]

\* float(_round_to(float(el["x"]) + dx, 1))
moved_coord(coord, d) == round_to(coord.num * d.den + d.num * coord.den, coord.den * d.den, 1)

\* a copy that keeps the deletion flag of its source
remap_element_keeps_deleted(b, c, el, k, maps, dx, dy, seer_label) ==
    LET mapped(id) == IF id \in DOMAIN maps.id_map THEN maps.id_map[id] ELSE id
        gids == keep_where(el.groupIds, [j \in 1..Len(el.groupIds) |-> el.groupIds[j] \in DOMAIN maps.group_map])
    IN  [el EXCEPT !.id = mapped(el.id),
                   !.seed = ctx_seed(c, 2 * (k - 1)), !.versionNonce = ctx_seed(c, 2 * (k - 1) + 1),
                   !.updated = ctx_now(c), !.locked = FALSE,
                   !.seerSource = IF @ = "" THEN "library" ELSE @,
                   !.seerLabel = IF @ = "" THEN seer_label ELSE @,
                   !.groupIds = [j \in 1..Len(gids) |-> maps.group_map[gids[j]]],
                   !.x = moved_coord(raw_coord(el.x, el.xfrac), dx), !.xfrac = <<0, 1>>,
                   !.y = moved_coord(raw_coord(el.y, el.yfrac), dy), !.yfrac = <<0, 1>>,
                   !.containerId = mapped(el.containerId),
                   !.startBinding = mapped(el.startBinding), !.endBinding = mapped(el.endBinding),
                   !.boundElements = [j \in 1..Len(el.boundElements) |->
                                         [type |-> el.boundElements[j].type, id |-> mapped(el.boundElements[j].id)]]]

\* the second loop, for the k-th element
remap_element(b, c, el, k, maps, dx, dy, seer_label) ==
    LET mapped(id) == IF id \in DOMAIN maps.id_map THEN maps.id_map[id] ELSE id
        gids == keep_where(el.groupIds, [j \in 1..Len(el.groupIds) |-> el.groupIds[j] \in DOMAIN maps.group_map])
    IN  [el EXCEPT !.id = mapped(el.id),
                   !.seed = ctx_seed(c, 2 * (k - 1)), !.versionNonce = ctx_seed(c, 2 * (k - 1) + 1),
                   !.updated = ctx_now(c), !.isDeleted = FALSE, !.locked = FALSE,
                   !.seerSource = IF @ = "" THEN "library" ELSE @,
                   !.seerLabel = IF @ = "" THEN seer_label ELSE @,
                   !.groupIds = [j \in 1..Len(gids) |-> maps.group_map[gids[j]]],
                   !.x = moved_coord(raw_coord(el.x, el.xfrac), dx), !.xfrac = <<0, 1>>,
                   !.y = moved_coord(raw_coord(el.y, el.yfrac), dy), !.yfrac = <<0, 1>>,
                   !.containerId = mapped(el.containerId),
                   !.startBinding = mapped(el.startBinding), !.endBinding = mapped(el.endBinding),
                   !.boundElements = [j \in 1..Len(el.boundElements) |->
                                         [type |-> el.boundElements[j].type, id |-> mapped(el.boundElements[j].id)]]]

\* the post-pass (lines 590-607) from element i on
RECURSIVE normalize_bindings(_, _)
normalize_bindings(copied, i) ==
    IF i > Len(copied) THEN copied
    ELSE LET el == copied[i]
             ci == by_id(copied, el.containerId)
             g1 == replace_at(copied, i, [copied[i] EXCEPT !.groupIds = copied[ci].groupIds])
             bound == g1[ci].boundElements
             ref == [type |-> "text", id |-> g1[i].id]
             g2 == IF \E j \in 1..Len(bound) : bound[j] = ref THEN g1
                   ELSE replace_at(g1, ci, [g1[ci] EXCEPT !.boundElements = Append(bound, ref)])
         IN  IF el.type = "text" /\ el.containerId # NoId /\ ci # 0
             THEN normalize_bindings(g2, i + 1)
             ELSE normalize_bindings(copied, i + 1)

\* a copy that is the list of the item's own element objects
copied_elements_shared(item) == [els |-> item.elements, alias |-> item.id]

\* line 518, json.loads(json.dumps(item.elements)): the elements are equal to
\* the item's and are objects of their own
copied_elements(item) == [els |-> item.elements, alias |-> NoId]

\* what the in-place changes of a group leave in the catalog: nothing when the
\* group is made of objects of its own
written_back(c, group) ==
    IF c.alias = NoId THEN c
    ELSE [c EXCEPT !.catalog = [k \in 1..Len(c.catalog) |->
                                   IF c.catalog[k].id = c.alias
                                   THEN [c.catalog[k] EXCEPT !.elements = group] ELSE c.catalog[k]]]

\* instantiate_library_item: the new elements and the generators after it
instantiate_library_item(b, c, item, x, y, label_override, seer_label) ==
    LET els == copied_elements(item).els
        relabelled(copied) ==
            IF label_override # <<>> THEN rewrite_library_label(b, copied, label_override) ELSE copied
        changed(group, c2) == [group |-> group, c |-> written_back(c2, group)]
        remapped(maps, c1, box) ==
            changed(relabelled(normalize_bindings(
                           [k \in 1..Len(els) |->
                               remap_element(b, c1, els[k], k, maps, snap_delta(b, x, box.x), snap_delta(b, y, box.y),
                                             seer_label)], 1)),
                    [ctx_after(c1, 0, 2 * Len(els)) EXCEPT !.alias = copied_elements(item).alias])
        copied_with(drawn) == remapped(drawn.maps, [c EXCEPT !.idrng = drawn.idrng], bbox_corner(els))
    IN  copied_with(draw_ids(els, 1, [id_map |-> <<>>, group_map |-> <<>>], c.idrng))

(***************************************************************************)
(* Fitting, moving and restyling an instantiated fragment                  *)
(***************************************************************************)
\* max_h = None
NoLimit == -1

\* _fit_group_to_bounds: the scale is the fraction sn / sd
fit_group_to_bounds(group, max_w, max_h) ==
    LET box == bbox_for_elements(group)
        w == box.x1 - box.x0
        h == box.y1 - box.y0
        by_w == max_w # NoLimit /\ w > max_w
        by_h == max_h # NoLimit /\ h > max_h
        use_w == by_w /\ (~by_h \/ max_w * h <= max_h * w)
        scaled(x0, y0, sn, sd) ==
            IF 1000 * sn >= 999 * sd THEN group
            ELSE [i \in 1..Len(group) |->
                    [group[i] EXCEPT !.x = round_to(x0 * sd + (@ - x0) * sn, sd, 1),
                                     !.y = round_to(y0 * sd + (@ - y0) * sn, sd, 1),
                                     !.width = round_to(@ * sn, sd, 1),
                                     !.height = round_to(@ * sn, sd, 1),
                                     !.fontSize = IF group[i].type = "text" THEN <<@[1] * sn, @[2] * sd>> ELSE @]]
    IN  IF group = <<>> \/ w <= 0 \/ h <= 0 THEN group
        ELSE IF use_w THEN scaled(box.x0, box.y0, max_w, w)
        ELSE IF by_h THEN scaled(box.x0, box.y0, max_h, h)
        ELSE group

\* _offset_group by dxn / den and dyn / den, for the elements at positions idxs
offset_group(group, idxs, dxn, dyn, den) ==
    IF dxn = 0 /\ dyn = 0 THEN group
    ELSE [i \in 1..Len(group) |->
            IF i \in idxs
            THEN [group[i] EXCEPT !.x = round_to(@ * den + dxn, den, 1), !.y = round_to(@ * den + dyn, den, 1)]
            ELSE group[i]]

\* _simplify_library_header with keep_actions=False: shapes right of 65% of the
\* width are removed
simplify_library_header(group) ==
    LET box == bbox_for_elements(group)
    IN  keep_where(group, [i \in 1..Len(group) |->
            ~(/\ group[i].type \in {"line", "ellipse", "diamond", "rectangle"}
              /\ 100 * group[i].x > 100 * box.x0 + 65 * (box.x1 - box.x0))])

apply_theme_to_library_group(b, group) ==
    LET labelled == {i \in 1..Len(group) : group[i].seerLabel # ""}
        is_button == labelled # {} /\ group[Min(labelled)].seerLabel = "button"
        themed(el) ==
            IF el.type = "text"
            THEN [el EXCEPT !.strokeColor = IF is_button THEN "#ffffff" ELSE b.theme.text]
            ELSE IF el.type \in {"rectangle", "ellipse", "diamond", "line", "arrow"}
            THEN LET e1 == [el EXCEPT !.strokeColor = b.theme.border]
                     e2 == IF is_button /\ el.type = "rectangle"
                           THEN [e1 EXCEPT !.backgroundColor = IF @ \in {"", "transparent"} THEN "#1e1e1e" ELSE @,
                                           !.fillStyle = "solid"]
                           ELSE e1
                 IN  IF el.type = "rectangle" /\ el.seerLabel \in {"card", "image"}
                     THEN [e2 EXCEPT !.backgroundColor = b.theme.container, !.fillStyle = "solid"]
                     ELSE e2
            ELSE el
    IN  [i \in 1..Len(group) |-> themed(group[i])]

\* the first rectangle with bound elements, 0 for none
bound_rect(group) ==
    LET rs == {i \in 1..Len(group) : group[i].type = "rectangle" /\ group[i].boundElements # <<>>}
    IN  IF rs = {} THEN 0 ELSE Min(rs)

\* the loop of _normalize_input_group over the bound elements of the rectangle
RECURSIVE normalize_input_texts(_, _, _, _, _, _, _)
normalize_input_texts(b, group, bound, x, y, w, h) ==
    IF bound = <<>> THEN group
    ELSE LET ti == by_id(group, Head(bound).id)
             tel == group[ti]
             font_size == font_size_of(tel, 14)
             new_h == label_height_of(tel, font_size)
             g1 == replace_at(group, ti, [group[ti] EXCEPT !.width = fitted_label_width(b, w, Strip(tel.text), font_size),
                                 !.height = new_h,
                                 !.x = round_to(x + b.grid, 1, 1),
                                 !.y = round_to(2 * y + h - new_h, 2, 1)])
         IN  IF Head(bound).id = NoId \/ ti = 0 \/ Strip(tel.text) = <<>>
             THEN normalize_input_texts(b, group, Tail(bound), x, y, w, h)
             ELSE normalize_input_texts(b, g1, Tail(bound), x, y, w, h)

normalize_input_group(b, group, x, y, w, h) ==
    LET ri == bound_rect(group)
        g1 == replace_at(group, ri, set_rect_bounds(group[ri], x, y, w, h))
    IN  IF ri = 0 THEN group ELSE normalize_input_texts(b, g1, g1[ri].boundElements, x, y, w, h)

\* the loop of _normalize_card_group over the bound elements of the rectangle
RECURSIVE normalize_card_texts(_, _, _)
normalize_card_texts(b, group, bound) ==
    IF bound = <<>> THEN group
    ELSE LET ti == by_id(group, Head(bound).id)
         IN  IF Head(bound).id = NoId \/ ti = 0 THEN normalize_card_texts(b, group, Tail(bound))
             ELSE normalize_card_texts(b, set_library_text(b, group, ti, group[ti].text), Tail(bound))

normalize_card_group(b, group, x, y, w, h) ==
    LET ri == bound_rect(group)
        g1 == replace_at(group, ri, set_rect_bounds(group[ri], x, y, w, h))
    IN  IF ri = 0 THEN group ELSE normalize_card_texts(b, g1, g1[ri].boundElements)

normalize_header_group(b, group, x, y, w, h) ==
    LET rects == {i \in 1..Len(group) : group[i].type = "rectangle"}
        headers == {i \in rects : group[i].seerLabel = "header"}
        ri == IF headers # {} THEN Min(headers) ELSE Min(rects)
        icons == {i \in 1..Len(group) : group[i].type \in {"line", "ellipse", "diamond", "arrow"}}
        only(g, idxs) == keep_where(g, [i \in 1..Len(g) |-> i \in idxs])
        \* lines 1147-1152; dx = desired_left - lx0 and min_text_x = lx1 + grid * 0.5 + dx,
        \* in halves
        padded(g, ti, left, lbox, dx2) ==
            LET moved == IF dx2 >= 2 \/ dx2 <= -2 THEN offset_group(g, left, dx2, 0, 2) ELSE g
                min_text_x2 == 2 * lbox.x1 + b.grid + dx2
            IN  IF 2 * moved[ti].x < min_text_x2
                THEN replace_at(moved, ti, [moved[ti] EXCEPT !.x = round_to(min_text_x2, 2, 1)])
                ELSE moved
        \* lines 1144-1146
        with_left_cluster(g, ti, hrect, left, lbox) == padded(g, ti, left, lbox, 2 * hrect.x + b.grid - 2 * lbox.x0)
        \* lines 1142-1143
        with_icons_centred(g, ti, hrect, left) ==
            IF left = {} THEN g ELSE with_left_cluster(g, ti, hrect, left, bbox_for_elements(only(g, left)))
        left_cluster(g, ti, hrect) ==
            with_icons_centred(g, ti, hrect, {i \in icons : 10 * g[i].x <= 10 * hrect.x + 4 * hrect.width})
        \* lines 1135-1140; dy = rect_center - icon_center, in halves
        icons_centred(g, hrect, ibox, dy2) == IF dy2 >= 2 \/ dy2 <= -2 THEN offset_group(g, icons, 0, dy2, 2) ELSE g
        icon_elems(g, hrect, ibox) ==
            icons_centred(g, hrect, ibox,
                (2 * (IF hrect.y # 0 THEN hrect.y ELSE y) + (IF hrect.height # 0 THEN hrect.height ELSE h))
                - (ibox.y0 + ibox.y1))
        \* lines 1133-1152
        with_title(g, ti, hrect) ==
            IF icons = {} THEN g ELSE left_cluster(icon_elems(g, hrect, bbox_for_elements(only(g, icons))), ti, hrect)
        \* lines 1120-1131
        titled(g, ti, target, font_size, new_h) ==
            replace_at(g, ti, [target EXCEPT !.width = fitted_label_width(b, w, Strip(target.text), font_size),
                                             !.height = new_h, !.textAlign = "left",
                                             !.x = round_to(x + b.grid, 1, 1),
                                             !.y = round_to(2 * y + h - new_h, 2, 1)])
        sized(g, ti, target, font_size) == titled(g, ti, target, font_size, label_height_of(target, font_size))
        \* lines 1117-1152
        with_target(g, ti, target) ==
            IF Strip(target.text) = <<>> THEN g
            ELSE with_title(sized(g, ti, target, font_size_of(target, 16)), ti, g[ri])
        first_text(g, texts) ==
            first_least(texts, [i \in texts |-> g[i].y], [i \in texts |-> g[i].x])
        sorted_texts(g, ti) == with_target(g, ti, g[ti])
        \* lines 1114-1152
        with_texts(g, texts) == IF texts = {} THEN g ELSE sorted_texts(g, first_text(g, texts))
        with_rect(g) == with_texts(g, text_indices(g))
    IN  IF rects = {} THEN group
        ELSE with_rect(replace_at(group, ri, set_rect_bounds(group[ri], x, y, w, h)))

(***************************************************************************)
(* Screen layout                                                           *)
(***************************************************************************)
QuoteChars == {"\"", "'"}

\* the position of the quote closing the one at i under "[^"]+" (one character
\* at least in between), 0 when there is none
closing_quote(s, i) ==
    LET js == {j \in (i + 1)..Len(s) : s[j] = s[i]}
    IN  IF js = {} \/ Min(js) = i + 1 THEN 0 ELSE Min(js)

\* _split_items after the strip: i is the position looked at, cur the piece
\* being read, bare its characters outside quotes, q whether it holds a quoted
\* part.  A piece is kept when it is not blank before the quoted parts are put
\* back.
RECURSIVE split_items_loop(_, _, _, _, _, _)
split_items_loop(s, i, cur, bare, q, acc) ==
    LET keep == q \/ Strip(bare) # <<>>
        done == IF keep THEN Append(acc, Strip(cur)) ELSE acc
    IN  IF i > Len(s) THEN done
        ELSE IF s[i] \in {",", "\n"} THEN split_items_loop(s, i + 1, <<>>, <<>>, FALSE, done)
        ELSE IF s[i] \in QuoteChars /\ closing_quote(s, i) # 0
             THEN split_items_loop(s, closing_quote(s, i) + 1,
                                   cur \o SubSeq(s, i + 1, closing_quote(s, i) - 1), bare, TRUE, acc)
        ELSE split_items_loop(s, i + 1, Append(cur, s[i]), Append(bare, s[i]), q, acc)

split_items(text) ==
    IF Strip(text) = <<>> THEN <<>> ELSE split_items_loop(Strip(text), 1, <<>>, <<>>, FALSE, <<>>)

\* str.title() of a type word
Title(w) == <<UpperChar(w[1])>> \o Tail(w)

\* [t.strip() for t in re.split(r"\s*\|\s*", label) if t.strip()], and its fallback
bar_labels(label, fallback) ==
    LET ts == StripNonEmpty(SplitOn(label, {"|"}, <<>>))
    IN  IF Len(ts) <= 1
        THEN (IF split_items(label) # <<>> THEN split_items(label) ELSE fallback)
        ELSE ts

height_by_type(comp_type) ==
    CASE comp_type = "header" -> 60
      [] comp_type = "tabs" -> 48
      [] comp_type \in {"input", "button", "dropdown"} -> 52
      [] comp_type = "textarea" -> 120
      [] comp_type \in {"checkbox", "radio", "toggle"} -> 40
      [] comp_type = "card" -> 140
      [] comp_type \in {"list", "image"} -> 160
      [] OTHER -> 80

\* The state of the loop of _layout_screen: the elements so far, the cursor y,
\* the generators, and whether the loop has left through its break.
LayoutState(els, y, c, stop) == [els |-> els, y |-> y, c |-> c, stop |-> stop]

\* elements.append(el) for an element made by one constructor call
emit(st, el) == [st EXCEPT !.els = Append(@, el), !.c = ctx_after(@, 1, 2)]

\* rows of the primitive list, from row idx (0-based) on
RECURSIVE list_rows(_, _, _, _, _, _)
list_rows(env, st, items, idx, row_y, row_h) ==
    IF idx >= MinOf(Len(items), 7) THEN st
    ELSE LET b == env.b
             baseline == IntOf(14 * 12, 10)
             with_text(sep, sz) ==
                 emit(sep, text_el(b, sep.c, env.content_x + env.g, 1, 2 * row_y + row_h - 2 * baseline, 2,
                                   items[idx + 1], 14, b.theme.text, "left", NoId, <<>>, sz.w, sz.h))
             row(sep) == list_rows(env, with_text(sep, text_size(items[idx + 1], 14)), items, idx + 1, row_y + row_h, row_h)
         IN  row(IF idx > 0
                 THEN emit(st, line_el(b, st.c, env.content_x + 8, 1, row_y, 1,
                                       env.content_x + env.content_w - 8, 1, row_y, 1))
                 ELSE st)

\* segments of the primitive tabs, from segment i (0-based) on
RECURSIVE tab_segments(_, _, _, _, _, _)
tab_segments(env, st, tab_labels, n, i, h) ==
    IF i >= n THEN st
    ELSE LET b == env.b
             with_text(sep, t, label_w, label_h) ==
                 emit(sep, text_el(b, sep.c,
                                   2 * env.content_x * n + 2 * env.content_w * i + env.content_w - label_w * n, 2 * n,
                                   2 * st.y + h - label_h, 2,
                                   t, 14, b.theme.text, "center", NoId, <<>>, label_w, label_h))
             seg(sep) ==
                 tab_segments(env, with_text(sep, tab_labels[i + 1], calc_label_width(tab_labels[i + 1], 14),
                                             round_to(14 * 16, 10, 10)),
                              tab_labels, n, i + 1, h)
         IN  seg(IF i > 0
                 THEN emit(st, line_el(b, st.c, env.content_x * n + env.content_w * i, n, st.y, 1,
                                       env.content_x * n + env.content_w * i, n, st.y + h, 1))
                 ELSE st)

\* elements.extend([rect, txt]) for the pair of builder.labeled_rect
emit_pair(st, lr) == [st EXCEPT !.els = @ \o lr, !.c = ctx_after(@, 3, 4)]

\* lines 1529-1549
primitive_tabs(env, st, h, tab_labels) ==
    tab_segments(env, emit(st, [rect(env.b, st.c, env.content_x, 1, st.y, 1, env.content_w, h, "tabs")
                                EXCEPT !.backgroundColor = "transparent", !.fillStyle = "hachure"]),
                 tab_labels, MaxOf(1, MinOf(6, Len(tab_labels))), 0, h)

\* lines 1556-1560
primitive_image(env, st, h, caption) ==
    LET captioned(s1) ==
            emit(s1, text_el(env.b, s1.c, env.content_x + env.g, 1, st.y + env.g, 1, caption,
                             16, env.b.theme.muted_text, "left", NoId, <<>>, NoSize, NoSize))
    IN  captioned(emit(st, [rect(env.b, st.c, env.content_x, 1, st.y, 1, env.content_w, h, "image")
                            EXCEPT !.fillStyle = "cross-hatch"]))

\* list_h of lines 1563-1564
list_height(b, items) == b.grid * 2 + MaxOf(b.grid * 2, 32) * MaxOf(1, Len(items))

\* lines 1561-1588
primitive_list(env, st, items, list_h) ==
    list_rows(env, emit(st, set_rect_bounds(rect(env.b, st.c, env.content_x, 1, st.y, 1, env.content_w, list_h, "list"),
                                            env.content_x, st.y, env.content_w, list_h)),
              items, 0, st.y + env.b.grid, MaxOf(env.b.grid * 2, 32))

\* lines 1593-1596: the cursor moves to y1; past the bottom margin the caption is
\* emitted and the loop stops
advance_cursor(env, st, y1) ==
    IF y1 > env.screen_y + env.screen_h - env.g
    THEN [emit([st EXCEPT !.y = y1],
               text_el(env.b, st.c, env.content_x, 1, env.screen_y + env.screen_h - env.g, 1, WORD.more_omitted, 14,
                       env.b.theme.muted_text, "left", NoId, <<>>, NoSize, NoSize))
          EXCEPT !.stop = TRUE]
    ELSE [st EXCEPT !.y = y1]

\* lines 1523-1596: the primitive rendering of a component, the advance of the
\* cursor and the overflow check
layout_primitive(env, st, comp_type, label) ==
    LET b == env.b
        cw == env.content_w
        h0 == height_by_type(comp_type)
        pair(w, txt, fs) == labeled_rect(b, st.c, env.content_x, st.y, w, h0, txt, fs, comp_type)
        muted(lr) == << lr[1], [lr[2] EXCEPT !.strokeColor = b.theme.muted_text] >>
    IN  advance_cursor(env,
            CASE comp_type = "header" -> emit_pair(st, pair(cw, label, 18))
              [] comp_type = "button" -> emit_pair(st, pair(MinOf(cw, 320), label, 18))
              [] comp_type = "tabs" ->
                    primitive_tabs(env, st, h0, bar_labels(label, << (IF label # <<>> THEN label ELSE WORD.Tab) >>))
              [] comp_type = "input" ->
                    emit_pair(st, muted(pair(MinOf(cw, 520), IF label # <<>> THEN label ELSE WORD.Input, 16)))
              [] comp_type = "image" -> primitive_image(env, st, h0, IF label # <<>> THEN label ELSE WORD.Image)
              [] comp_type = "list" -> primitive_list(env, st, split_items(label), list_height(b, split_items(label)))
              [] OTHER -> emit_pair(st, pair(cw, label, 16)),
            st.y + (IF comp_type = "list" THEN list_height(b, split_items(label)) ELSE h0) + env.g)

\* the words of the state pattern of lines 1514-1515
StateWords == << <<"o","n">>, <<"o","f","f">>, <<"t","r","u","e">>, <<"f","a","l","s","e">>, <<"e","n","a","b","l","e","d">>, <<"d","i","s","a","b","l","e","d">>, <<"c","h","e","c","k","e","d">>, <<"u","n","c","h","e","c","k","e","d">> >>

\* elements.extend(group) for an instantiated fragment
extend_group(st, inst, group) == [st EXCEPT !.els = @ \o group, !.c = written_back(inst.c, group)]

\* elements.extend(group) and y = builder.snap(gy1 + gap) for a fragment instance
append_group(env, st, group, c, gap) ==
    LayoutState(st.els \o group, snap(env.b, bbox_for_elements(group).y1 + gap, 1), written_back(c, group), st.stop)

\* lines 1449-1465: a simplified header without a rectangle gets a background
library_header(env, st, h, simplified, c) ==
    IF \A i \in 1..Len(simplified) : simplified[i].type # "rectangle"
    THEN [group |-> <<set_rect_bounds(rect(env.b, c, env.content_x, 1, st.y, 1, env.content_w, h, "header"),
                                      env.content_x, st.y, env.content_w, h)>> \o simplified,
          c |-> ctx_after(c, 1, 2)]
    ELSE [group |-> simplified, c |-> c]

\* lines 1467-1471: the group is centred in the height it was fitted to; the
\* offset is (max_h - group_h) / 2
centre_in_height(group, max_h) ==
    LET centred(box) ==
            IF max_h # NoLimit /\ max_h # 0 /\ box.y1 - box.y0 > 0 /\ max_h > box.y1 - box.y0
            THEN offset_group(group, 1..Len(group), 0, max_h - (box.y1 - box.y0), 2) ELSE group
    IN  centred(bbox_for_elements(group))

\* lines 1475-1482
normalize_library_group(b, comp_type, group, x, y, w, h) ==
    CASE comp_type = "input" -> normalize_input_group(b, group, x, y, w, h)
      [] comp_type = "card" -> normalize_card_group(b, group, x, y, w, h)
      [] comp_type = "header" -> normalize_header_group(b, group, x, y, w, h)
      [] OTHER -> group

\* lines 1484-1488: a button, tabs or footer narrower than the content is centred
\* in its width; the offset is (content_w - group_w) / 2
centre_in_width(group, comp_type, content_w) ==
    LET centred(box) ==
            IF comp_type \in {"button", "tabs", "footer"} /\ box.x1 - box.x0 > 0 /\ box.x1 - box.x0 < content_w
            THEN offset_group(group, 1..Len(group), content_w - (box.x1 - box.x0), 0, 2) ELSE group
    IN  centred(bbox_for_elements(group))

\* lines 1514-1515: the label without its state words
strip_state_words(label) ==
    Strip(remove_words(Strip(remove_words(label, 1, StateWords, TRUE)), 1, StateWords, FALSE))

\* lines 1490-1518
relabel_library_group(b, comp_type, group, label) ==
    CASE comp_type = "tabs" ->
            rewrite_library_tabs_labels(b, group, bar_labels(label, << (IF label # <<>> THEN label ELSE WORD.Tab) >>))
      [] comp_type \in {"button", "header", "card"} ->
            IF label # <<>> THEN rewrite_library_label(b, group, label) ELSE group
      [] comp_type = "footer" ->
            IF bar_labels(label, <<>>) # <<>>
            THEN rewrite_library_footer_labels(b, group, bar_labels(label, <<>>)) ELSE group
      [] comp_type = "input" ->
            rewrite_library_label_and_placeholder(b, group, <<>>, IF label # <<>> THEN label ELSE WORD.Input)
      [] comp_type \in {"dropdown", "textarea"} ->
            rewrite_library_label_and_placeholder(b, group, label,
                IF comp_type = "dropdown" THEN WORD.Select ELSE WORD.Enter_text)
      [] comp_type \in {"checkbox", "radio", "toggle"} ->
            IF strip_state_words(label) # <<>> THEN rewrite_library_label(b, group, strip_state_words(label)) ELSE group
      [] OTHER -> group

\* lines 1420-1521: the library-backed rendering of a component by the item
library_component(env, st, comp_type, label, h, item) ==
    LET b == env.b
        cx == env.content_x
        cw == env.content_w
        max_h == IF comp_type \in {"header", "footer", "tabs", "card", "image", "input", "dropdown", "textarea"}
                 THEN h ELSE NoLimit
        centred_x(item_w) ==
            IF comp_type = "button" /\ item_w > 0 /\ item_w < cw THEN IntOf(2 * cx + cw - item_w, 2) ELSE cx
        place_x(ibox) == centred_x(ibox.x1 - ibox.x0)
        fitted(inst) ==
            IF comp_type = "header"
            THEN library_header(env, st, h, simplify_library_header(fit_group_to_bounds(inst.group, cw, max_h)), inst.c)
            ELSE [group |-> fit_group_to_bounds(inst.group, cw, max_h), c |-> inst.c]
        placed(hd) ==
            append_group(env, st,
                relabel_library_group(b, comp_type,
                    centre_in_width(
                        normalize_library_group(b, comp_type,
                            apply_theme_to_library_group(b, centre_in_height(hd.group, max_h)),
                            cx, st.y, cw, h),
                        comp_type, cw),
                    label),
                hd.c, env.g)
    IN  placed(fitted(instantiate_library_item(b, st.c, item, place_x(bbox_for_elements(item.elements)), st.y, <<>>,
                                               comp_type)))

\* chips that are all instantiated at the place of the first one
RECURSIVE chips_loop_stacked(_, _, _, _, _, _, _, _)
chips_loop_stacked(env, st, chip, items, k, x_cursor, y0, max_y1) ==
    IF k > MinOf(Len(items), 8) THEN [st EXCEPT !.y = snap(env.b, max_y1 + env.g, 1)]
    ELSE LET placed(inst, box) ==
                 chips_loop_stacked(env, extend_group(st, inst, inst.group), chip, items, k + 1,
                                    x_cursor, y0, MaxOf(max_y1, box.y1))
             instantiated(inst) == placed(inst, bbox_for_elements(inst.group))
         IN  instantiated(instantiate_library_item(env.b, st.c, chip, x_cursor, y0, items[k], "chips"))

\* the chips of a chips phrase from item k on, one instance of the fragment each
RECURSIVE chips_loop(_, _, _, _, _, _, _, _)
chips_loop(env, st, chip, items, k, x_cursor, y0, max_y1) ==
    IF k > MinOf(Len(items), 8) THEN [st EXCEPT !.y = snap(env.b, max_y1 + env.g, 1)]
    ELSE LET placed(inst, box) ==
                 chips_loop(env, extend_group(st, inst, inst.group), chip, items, k + 1,
                            snap(env.b, box.x1 + env.b.grid, 1), y0, MaxOf(max_y1, box.y1))
             instantiated(inst) == placed(inst, bbox_for_elements(inst.group))
         IN  instantiated(instantiate_library_item(env.b, st.c, chip, x_cursor, y0, items[k], "chips"))

\* value.split("|", 1), each part stripped
split_once(value) ==
    LET bars == {i \in 1..Len(value) : value[i] = "|"}
    IN  IF bars = {} THEN << Strip(value) >>
        ELSE << Strip(Take(value, Min(bars) - 1)), Strip(Drop(value, Min(bars))) >>

\* builder.text at the cursor and y += 32
plain_text(env, st, t, fs, color, x) ==
    [emit(st, text_el(env.b, st.c, x, 1, st.y, 1, t, fs, color, "left", NoId, <<>>, NoSize, NoSize))
     EXCEPT !.y = st.y + 32]

\* builder.line across the content at the cursor
rule(env, st) == emit(st, line_el(env.b, st.c, env.content_x, 1, st.y, 1, env.content_x + env.content_w, 1, st.y, 1))

\* lines 1334-1337: the rule under a section title
after_rule(env, st) == [rule(env, st) EXCEPT !.y = snap(env.b, st.y + env.b.grid, 1)]

\* lines 1312-1337
layout_section(env, st, title, si) ==
    LET from_library(inst) ==
            after_rule(env, append_group(env, st,
                rewrite_library_section_title(env.b, fit_group_to_bounds(inst.group, env.content_w, 28), title),
                inst.c, env.b.grid))
    IN  IF env.prefer_library /\ env.library.loaded /\ si # 0
        THEN from_library(instantiate_library_item(env.b, st.c, env.library.items[si], env.content_x, st.y, <<>>,
                                                   "section"))
        ELSE after_rule(env, [emit(st, text_el(env.b, st.c, env.content_x + env.g, 1, st.y, 1, Upper(title), 12,
                                               env.b.theme.muted_text, "left", NoId, <<>>, NoSize, NoSize))
                              EXCEPT !.y = snap(env.b, st.y + env.b.grid, 1)])

\* lines 1345-1371
layout_chips(env, st, items, chip) ==
    IF env.prefer_library /\ env.library.loaded /\ chip # 0 /\ items # <<>>
    THEN chips_loop(env, st, env.library.items[chip], items, 1, env.content_x, st.y, st.y)
    ELSE plain_text(env, st, IF Join(items, <<",", " ">>) # <<>> THEN Join(items, <<",", " ">>) ELSE WORD.chips,
                    16, env.b.theme.muted_text, env.content_x)

\* a lib: phrase that leaves nothing in the screen
layout_lib_miss_dropped(env, st, value, parts) == st

\* lines 1373-1398
layout_lib(env, st, value, parts) ==
    LET placed(inst) == append_group(env, st, inst.group, inst.c, env.g)
        found(li) ==
            IF li # 0
            THEN placed(instantiate_library_item(env.b, st.c, env.library.items[li], env.content_x, st.y,
                                                 IF Len(parts) > 1 THEN parts[2] ELSE <<>>, "lib"))
            ELSE plain_text(env, st, WORD.lib_colon \o value, 16, env.b.theme.muted_text, env.content_x)
    IN  found(IF env.library.loaded /\ parts[1] # <<>> THEN find(env.library, parts[1]) ELSE 0)

\* lines 1400-1596: rendered by the item picked from the library, or as a
\* primitive when there is none
layout_component(env, st, comp_type, label) ==
    IF /\ env.prefer_library /\ env.library.loaded
       /\ DEFAULT_LIBRARY_COMPONENT_QUERIES(comp_type) # <<>>
       /\ pick_library_item_for_component(env.library, comp_type, label) # 0
    THEN library_component(env, st, comp_type, label, height_by_type(comp_type),
                           env.library.items[pick_library_item_for_component(env.library, comp_type, label)])
    ELSE layout_primitive(env, st, comp_type, label)

\* lines 1304-1596 for the parsed phrase
layout_parsed(env, st, phrase, comp) ==
    IF st.stop \/ comp.type = "screen" THEN st
    ELSE IF comp.type = "divider" THEN [rule(env, st) EXCEPT !.y = st.y + (env.g \div 2)]
    ELSE IF comp.type = "section" THEN
        layout_section(env, st, IF comp.value # <<>> THEN comp.value ELSE WORD.Section,
                       find(env.library, WORD.section_title))
    ELSE IF comp.type = "text" THEN
        plain_text(env, st, IF comp.value # <<>> THEN comp.value ELSE phrase, 16, env.b.theme.text, env.content_x)
    ELSE IF comp.type = "chips" THEN layout_chips(env, st, split_items(comp.value), find(env.library, WORD.chips))
    ELSE IF comp.type \in {"lib", "library"} THEN layout_lib(env, st, comp.value, split_once(comp.value))
    ELSE layout_component(env, st, comp.type,
                          Strip(IF comp.value # <<>> THEN comp.value ELSE Title(TypeWord(comp.type))))

\* One iteration of the loop of _layout_screen (lines 1302-1596).
layout_phrase(env, st, phrase) == layout_parsed(env, st, phrase, parse_component(phrase))

RECURSIVE layout_loop(_, _, _, _)
layout_loop(env, st, phrases, i) ==
    IF i > Len(phrases) THEN st ELSE layout_loop(env, layout_phrase(env, st, phrases[i]), phrases, i + 1)

\* the state of the loop before the first phrase: the boundary of the screen
\* (and its label when show_label is set) is emitted, the cursor is at the top margin
layout_begin(b, c, screen_x, screen_y, screen_w, screen_h, screen_name, show_label) ==
    LET labelled(s1) ==
            IF show_label
            THEN emit(s1, text_el(b, s1.c, screen_x, 1, MaxOf(0, screen_y - b.grid), 1, screen_name, 12,
                                  b.theme.muted_text, "left", NoId, <<>>, NoSize, NoSize))
            ELSE s1
    IN  labelled(emit(LayoutState(<<>>, screen_y + b.grid, c, FALSE),
                      [rect(b, c, screen_x, 1, screen_y, 1, screen_w, screen_h, "screen")
                       EXCEPT !.backgroundColor = "transparent", !.fillStyle = "hachure"]))

LayoutEnv(b, screen_x, screen_y, screen_w, screen_h, library, prefer_library) ==
    [b |-> b, g |-> b.grid, content_x |-> screen_x + b.grid, content_w |-> screen_w - b.grid * 2,
     screen_y |-> screen_y, screen_h |-> screen_h, library |-> library, prefer_library |-> prefer_library]

\* _layout_screen: the elements of the screen and the generators after it
layout_screen(b, c, screen_x, screen_y, screen_w, screen_h, screen_name, phrases, library, prefer_library, show_label) ==
    layout_loop(LayoutEnv(b, screen_x, screen_y, screen_w, screen_h, library, prefer_library),
                layout_begin(b, c, screen_x, screen_y, screen_w, screen_h, screen_name, show_label),
                phrases, 1)

(***************************************************************************)
(* Scene validator                                                         *)
(***************************************************************************)
\* _validate_scene returns without raising
NoError == [kind |-> "none", id |-> NoId, other |-> NoId]
\* the ValueError _validate_scene raises: its message names id (and other)
ValueError(kind, id, other) == [kind |-> kind, id |-> id, other |-> other]

\* a first loop without the membership test of line 1608
RECURSIVE check_ids_without_duplicates(_, _)
check_ids_without_duplicates(elements, i) ==
    IF i > Len(elements) THEN NoError
    ELSE LET elid == elements[i].id
         IN  IF elid = NoId THEN ValueError("element missing id", NoId, NoId)
             ELSE IF elements[i].isDeleted THEN ValueError("isDeleted element present", elid, NoId)
             ELSE check_ids_without_duplicates(elements, i + 1)

\* lines 1604-1612 from element i on: by_id holds the ids of the elements before i
RECURSIVE check_ids(_, _)
check_ids(elements, i) ==
    IF i > Len(elements) THEN NoError
    ELSE LET elid == elements[i].id
         IN  IF elid = NoId THEN ValueError("element missing id", NoId, NoId)
             ELSE IF \E j \in 1..(i - 1) : elements[j].id = elid
             THEN ValueError("duplicate element id", elid, NoId)
             ELSE IF elements[i].isDeleted THEN ValueError("isDeleted element present", elid, NoId)
             ELSE check_ids(elements, i + 1)

\* lines 1615-1628 from element i on
RECURSIVE check_bindings(_, _)
check_bindings(elements, i) ==
    IF i > Len(elements) THEN NoError
    ELSE LET el == elements[i]
             container_id == el.containerId
             ci == by_id(elements, container_id)
             container == elements[ci]
             bound == container.boundElements
         IN  IF el.type # "text" \/ container_id = NoId THEN check_bindings(elements, i + 1)
             ELSE IF ci = 0 THEN ValueError("references missing containerId", el.id, container_id)
             ELSE IF el.groupIds # container.groupIds
             THEN ValueError("text/container groupIds mismatch", el.id, container_id)
             ELSE IF ~ \E j \in 1..Len(bound) : bound[j].type = "text" /\ bound[j].id = el.id
             THEN ValueError("missing boundElements reference", container_id, el.id)
             ELSE check_bindings(elements, i + 1)

\* abs(v - round(v / grid) * grid) < 1e-6
is_on_grid(value, grid) == value - RoundDiv(value, grid) * grid = 0

\* lines 1637-1643 from element i on
RECURSIVE check_grid(_, _, _)
check_grid(elements, grid, i) ==
    IF i > Len(elements) THEN NoError
    ELSE LET el == elements[i]
         IN  IF el.seerSource = "library" THEN check_grid(elements, grid, i + 1)
             ELSE IF ~ is_on_grid(el.x, grid) THEN ValueError("not snapped to grid (x)", el.id, NoId)
             ELSE IF ~ is_on_grid(el.y, grid) THEN ValueError("not snapped to grid (y)", el.id, NoId)
             ELSE check_grid(elements, grid, i + 1)

\* the passes in another order: the grid before the bindings
validate_scene_grid_first(elements, grid) ==
    LET e1 == check_ids(elements, 1)
        e2 == check_bindings(elements, 1)
        e3 == check_grid(elements, grid, 1)
    IN  IF e1.kind # "none" THEN e1 ELSE IF e3.kind # "none" THEN e3 ELSE e2

validate_scene(elements, grid) ==
    LET e1 == check_ids(elements, 1)
        e2 == check_bindings(elements, 1)
        e3 == check_grid(elements, grid, 1)
    IN  IF e1.kind # "none" THEN e1 ELSE IF e2.kind # "none" THEN e2 ELSE e3

(***************************************************************************)
(* build_scene                                                             *)
(***************************************************************************)
\* (seed or 0)
seed_or_0(seed) == IF seed = NoSeed THEN 0 ELSE seed

\* _ID_RNG = random.Random((seed or 0) ^ 0x5EED5EED)
seeded_id_rng(seed) == Random(Xor(seed_or_0(seed), IdSeedMask), 0)

\* a build that keeps a clock that is still live
kept_clock(seed) == IF NOW_MS.live THEN NOW_MS ELSE [live |-> TRUE, ms |-> seed_or_0(seed)]

\* _NOW_MS = 1_700_000_000_000 + (seed or 0)
seeded_clock(seed) == [live |-> TRUE, ms |-> seed_or_0(seed)]

\* size=None
NoScreenSize == <<>>
\* screen_w, screen_h
screen_size(preset, size) == IF size # NoScreenSize THEN size ELSE <<preset.width, preset.height>>

\* screens that all start at the outer margin
screen_x_of_stacked(b, idx, screen_w) == snap(b, 2 * b.grid, 1)

\* sx of the idx-th screen (0-based)
screen_x_of(b, idx, screen_w) == snap(b, 2 * b.grid + idx * (screen_w + 4 * b.grid), 1)

\* the document; zoom 0.8 is <<4, 5>>
Scene(elements, preset, theme, n_screens) ==
    [type |-> "excalidraw", version |-> 2, elements |-> elements,
     appState |-> [gridSize |-> preset.grid_size, viewBackgroundColor |-> theme.background,
                   zoom |-> IF n_screens > 1 THEN <<4, 5>> ELSE <<1, 1>>, scrollX |-> 0, scrollY |-> 0]]

\* str(custom.get("seerLabel") or "unknown")
used_label(el) == IF el.seerLabel # "" THEN el.seerLabel ELSE "unknown"

\* library_used_by_label
library_used_by_label(elements) ==
    LET used == {i \in 1..Len(elements) : elements[i].seerSource = "library"}
    IN  [l \in {used_label(elements[i]) : i \in used} |->
            Cardinality({i \in used : used_label(elements[i]) = l})]

\* a canvas with one gap for every screen, the last one too
canvas_w_gap_per_screen(g, screen_w, n_screens) == 4 * g + screen_w * n_screens + 4 * g * n_screens

\* lines 1672-1677: outer is 2 g, hgap is 4 g
canvas_w(g, screen_w, n_screens) == (2 * g) * 2 + screen_w * n_screens + (4 * g) * MaxOf(0, n_screens - 1)
canvas_h(g, screen_h) == (2 * g) * 2 + screen_h

\* the metadata returned with the document
Meta(elements, preset, theme, fidelity, library, prefer_library, screens, screen_w, screen_h) ==
    [preset |-> preset.name, theme |-> theme.name, fidelity |-> fidelity, grid |-> preset.grid_size,
     library_used |-> [loaded |-> library.loaded, prefer_library |-> prefer_library,
                       elements_total |-> Cardinality({i \in 1..Len(elements) : elements[i].seerSource = "library"}),
                       by_component |-> library_used_by_label(elements)],
     screens |-> [k \in 1..Len(screens) |-> [name |-> screens[k].name, count_phrases |-> Len(screens[k].phrases)]],
     layout |-> [canvas_width |-> canvas_w(preset.grid_size, screen_w, Len(screens)),
                 canvas_height |-> canvas_h(preset.grid_size, screen_h),
                 screen_width |-> screen_w, screen_height |-> screen_h]]

(***************************************************************************)
(* Catalogs the builds run with                                            *)
(***************************************************************************)
\* an id of a catalog document
LibId(n) == <<"lib", <<"lib", 0>>, n>>

\* a raw element of a catalog document
RawElement(id, type, x, y, w, h, group_ids, bound, container_id) ==
    [id |-> id, type |-> type, x |-> x, y |-> y, width |-> w, height |-> h,
     strokeColor |-> "#000000", backgroundColor |-> "transparent", fillStyle |-> "solid", opacity |-> 100,
     groupIds |-> group_ids, seed |-> <<<<"lib", 0>>, 0>>, versionNonce |-> <<<<"lib", 0>>, 0>>,
     isDeleted |-> FALSE, boundElements |-> [j \in 1..Len(bound) |-> [type |-> "text", id |-> bound[j]]],
     updated |-> 1, locked |-> FALSE, seerSource |-> "", seerLabel |-> "",
     text |-> <<>>, fontSize |-> <<0, 1>>, textAlign |-> "", containerId |-> container_id,
     startBinding |-> NoId, endBinding |-> NoId, xfrac |-> <<0, 1>>, yfrac |-> <<0, 1>>]

RawText(id, x, y, w, h, group_ids, container_id, text, font_size, align) ==
    [RawElement(id, "text", x, y, w, h, group_ids, <<>>, container_id)
     EXCEPT !.text = text, !.fontSize = <<font_size, 1>>, !.textAlign = align]

\* a top bar: a menu icon, a title and an action button at the right
Item_navigation_bar ==
    [name |-> <<"N","a","v","i","g","a","t","i","o","n"," ","B","a","r">>, id |-> LibId(100), elements |-> <<
        RawElement(LibId(1), "line", 8, 20, 24, 0, <<LibId(91)>>, <<>>, NoId),
        RawElement(LibId(2), "line", 8, 28, 24, 0, <<LibId(91)>>, <<>>, NoId),
        RawText(LibId(3), 48, 16, 60, 24, <<LibId(91)>>, NoId, <<"T","i","t","l","e">>, 20, "left"),
        RawElement(LibId(4), "rectangle", 300, 12, 52, 32, <<LibId(91), LibId(92)>>, <<LibId(5)>>, NoId),
        RawText(LibId(5), 310, 18, 32, 20, <<LibId(91), LibId(92)>>, LibId(4), <<"E","d","i","t">>, 16, "center") >>]

Item_chips ==
    [name |-> <<"C","h","i","p","s">>, id |-> LibId(101), elements |-> <<
        RawElement(LibId(1), "rectangle", 0, 0, 72, 28, <<LibId(91)>>, <<LibId(2)>>, NoId),
        RawText(LibId(2), 12, 4, 48, 20, <<LibId(91)>>, LibId(1), <<"C","h","i","p">>, 14, "center") >>]

Item_section_title ==
    [name |-> <<"S","e","c","t","i","o","n"," ","T","i","t","l","e">>, id |-> LibId(102), elements |-> <<
        RawText(LibId(1), 0, 0, 80, 20, <<>>, NoId, <<"S","e","c","t","i","o","n">>, 14, "left"),
        RawText(LibId(2), 280, 0, 70, 20, <<>>, NoId, <<"V","i","e","w"," ","A","l","l"," ",">">>, 12, "left") >>]

\* a fragment whose two elements share one id
Item_chips_duplicate_id ==
    [name |-> <<"C","h","i","p","s">>, id |-> LibId(103), elements |-> <<
        RawElement(LibId(1), "rectangle", 0, 0, 72, 28, <<LibId(91)>>, <<>>, NoId),
        RawText(LibId(1), 12, 4, 48, 20, <<LibId(91)>>, NoId, <<"C","h","i","p">>, 14, "center") >>]

\* a fragment with an element without id, a deleted one, and a text bound to a
\* container the fragment does not hold
Item_badge ==
    [name |-> <<"B","a","d","g","e">>, id |-> LibId(104), elements |-> <<
        RawElement(NoId, "ellipse", 0, 0, 24, 24, <<>>, <<>>, NoId),
        [RawElement(LibId(1), "rectangle", 30, 0, 40, 24, <<>>, <<>>, NoId) EXCEPT !.isDeleted = TRUE],
        RawText(LibId(2), 34, 2, 32, 20, <<>>, LibId(9), <<"N","e","w">>, 14, "center") >>]

\* two boxes joined by an arrow that is bound to both
Item_flow ==
    [name |-> <<"F","l","o","w">>, id |-> LibId(105), elements |-> <<
        RawElement(LibId(1), "rectangle", 0, 0, 40, 20, <<LibId(91)>>, <<>>, NoId),
        RawElement(LibId(2), "rectangle", 80, 0, 40, 20, <<LibId(91)>>, <<>>, NoId),
        [RawElement(LibId(3), "arrow", 40, 10, 40, 0, <<LibId(91), LibId(92)>>, <<>>, NoId)
            EXCEPT !.startBinding = LibId(1), !.endBinding = LibId(2)] >>]

\* a card with two captions at its top, the wider one second, and below them
\* three buttons one under the other; the caption of the middle one is a
\* placeholder word
Item_card ==
    [name |-> <<"C","a","r","d">>, id |-> LibId(106), elements |-> <<
        RawText(LibId(1), 0, 0, 80, 20, <<>>, NoId, <<"H","e","a","d","i","n","g">>, 16, "left"),
        RawText(LibId(2), 100, 0, 100, 20, <<>>, NoId, <<"S","u","b">>, 12, "left"),
        RawElement(LibId(3), "rectangle", 0, 30, 120, 32, <<>>, <<LibId(4)>>, NoId),
        RawText(LibId(4), 40, 36, 40, 20, <<>>, LibId(3), <<"O","k">>, 14, "center"),
        RawElement(LibId(5), "rectangle", 0, 70, 120, 32, <<>>, <<LibId(6)>>, NoId),
        RawText(LibId(6), 30, 76, 60, 20, <<>>, LibId(5), <<"B","u","t","t","o","n">>, 14, "center"),
        RawElement(LibId(7), "rectangle", 0, 110, 120, 32, <<>>, <<LibId(8)>>, NoId),
        RawText(LibId(8), 40, 116, 40, 20, <<>>, LibId(7), <<"N","o">>, 14, "center") >>]

\* a fragment drawn by hand: its elements stand at fractions of a pixel
Item_sketch ==
    [name |-> <<"S","k","e","t","c","h">>, id |-> LibId(107), elements |-> <<
        [RawElement(LibId(1), "rectangle", 0, 0, 10, 10, <<>>, <<>>, NoId) EXCEPT !.xfrac = <<1, 2>>],
        RawElement(LibId(2), "rectangle", 1, 0, 10, 10, <<>>, <<>>, NoId),
        [RawElement(LibId(3), "rectangle", 2, 3, 10, 10, <<>>, <<>>, NoId) EXCEPT !.yfrac = <<1, 4>>] >>]

Catalog(items) == [loaded |-> TRUE, items |-> items]
KitCatalog == Catalog(<<Item_navigation_bar, Item_chips, Item_section_title>>)
MalformedCatalog == Catalog(<<Item_chips_duplicate_id, Item_badge>>)
DrawnCatalog == Catalog(<<Item_chips, Item_flow, Item_card, Item_sketch>>)

\* every element of every fragment has an id of its own within the fragment
WellFormedIds(library) ==
    \A k \in 1..Len(library.items) :
        LET els == library.items[k].elements
        IN  \A i \in 1..Len(els) : els[i].id # NoId /\ \A j \in 1..Len(els) : els[j].id = els[i].id => j = i

\* the phrases the specifications build their texts from
PHRASE ==
    [screen_A |-> TypeWord("screen") \o <<":", " ", "A">>,
     screen_blank |-> TypeWord("screen") \o <<":">>,
     Screen_dash_B |-> WORD.Screen \o <<" ", "-", " ", "B">>,
     text_a |-> TypeWord("text") \o <<":", " ", "a">>,
     screens_x |-> TypeWord("screen") \o <<"s", " ", "x">>,
     header_Hi |-> TypeWord("header") \o <<":", " ", "H", "i">>,
     list_b |-> TypeWord("list") \o <<":", " ", "b">>,
     chips_a_b |-> TypeWord("chips") \o <<":", " ", "a", ",", " ", "b">>,
     chips_blank |-> TypeWord("chips") \o <<":">>,
     chips_quoted |-> TypeWord("chips") \o <<":", " ", "'", "a", ",", "b", "'", ",", "c">>,
     chips_nine |-> TypeWord("chips") \o <<":", "a", ",", "a", ",", "a", ",", "a", ",", "a", ",", "a", ",", "a", ",",
                                           "a", ",", "b">>,
     list_three |-> TypeWord("list") \o <<":", " ", "a", ",", " ", "b", ",", "c">>,
     list_nine |-> TypeWord("list") \o <<":", "a", ",", "a", ",", "a", ",", "a", ",", "a", ",", "a", ",", "a", ",",
                                         "a", ",", "b">>,
     lib_badge |-> TypeWord("lib") \o <<":", " ", "b", "a", "d", "g", "e">>,
     button_Go |-> TypeWord("button") \o <<":", " ", "G", "o">>,
     divider |-> TypeWord("divider"),
     section_S |-> TypeWord("section") \o <<":", " ", "S">>]

(***************************************************************************)
(* Values of the variables a specification does not use                    *)
(***************************************************************************)
NotLive == [live |-> FALSE, key |-> <<"seed", 0>>, n |-> 0]
NoClock == [live |-> FALSE, ms |-> 0]
NoInput == <<>>
NoBuild == <<>>
NoOutput == [outcome |-> "none"]
NoPinned == [live |-> FALSE]

SeqsUpTo(S, n) == UNION {[1..k -> S] : k \in 0..n}

(***************************************************************************)
(* SpecPhrases: _iter_phrases applied to the texts main hands to            *)
(* build_scene (main strips the text and rejects an empty one).            *)
(***************************************************************************)
MaxTextLen == 4
TextAlphabet == {"a", " ", "\n", ";", ".", "-"}
Texts == {t \in SeqsUpTo(TextAlphabet, MaxTextLen) : t # <<>> /\ Strip(t) = t}

InitPhrases ==
    /\ pc = "call"
    /\ arg \in Texts
    /\ res = <<>>
    /\ ID_RNG = NotLive /\ NOW_MS = NoClock
    /\ inp = NoInput /\ bld = NoBuild /\ out = NoOutput /\ pinned = NoPinned

IterPhrases ==
    /\ pc = "call"
    /\ res' = iter_phrases(arg)
    /\ pc' = "done"
    /\ UNCHANGED <<ID_RNG, NOW_MS, inp, bld, out, pinned, arg>>

NextPhrases == IterPhrases

SpecPhrases == InitPhrases /\ [][NextPhrases]_vars

(***************************************************************************)
(* SpecParse: _parse_component applied to phrases, each a few pieces put   *)
(* together and trimmed as _iter_phrases trims a phrase.                   *)
(***************************************************************************)
MaxPieces == 3
PhrasePieces ==
    {WORD.add, <<"C","r","e","a","t","e"," ">>, TypeWord("button"), <<"B","u","t","t","o","n">>,
     TypeWord("text"), TypeWord("textarea"), <<LongS,"c","r","e","e","n">>, <<":">>, <<" ">>, <<"s">>, <<"x">>}

RECURSIVE Concat(_)
Concat(ps) == IF ps = <<>> THEN <<>> ELSE Head(ps) \o Concat(Tail(ps))

PiecedPhrases == {p \in {Concat(ps) : ps \in SeqsUpTo(PhrasePieces, MaxPieces)} : p # <<>> /\ Strip(p) = p}

InitParse ==
    /\ pc = "call"
    /\ arg \in PiecedPhrases
    /\ res = <<>>
    /\ ID_RNG = NotLive /\ NOW_MS = NoClock
    /\ inp = NoInput /\ bld = NoBuild /\ out = NoOutput /\ pinned = NoPinned

ParseComponent ==
    /\ pc = "call"
    /\ res' = parse_component(arg)
    /\ pc' = "done"
    /\ UNCHANGED <<ID_RNG, NOW_MS, inp, bld, out, pinned, arg>>

NextParse == ParseComponent

SpecParse == InitParse /\ [][NextParse]_vars

(***************************************************************************)
(* SpecGroup: _group_screens applied to phrase sequences.                  *)
(***************************************************************************)
MaxGroupPhrases == 4
GroupPhrasePool == {PHRASE.screen_A, PHRASE.screen_blank, PHRASE.Screen_dash_B, PHRASE.text_a, PHRASE.screens_x, PHRASE.header_Hi}

InitGroup ==
    /\ pc = "call"
    /\ arg \in SeqsUpTo(GroupPhrasePool, MaxGroupPhrases)
    /\ res = <<>>
    /\ ID_RNG = NotLive /\ NOW_MS = NoClock
    /\ inp = NoInput /\ bld = NoBuild /\ out = NoOutput /\ pinned = NoPinned

GroupScreens ==
    /\ pc = "call"
    /\ res' = group_screens(arg)
    /\ pc' = "done"
    /\ UNCHANGED <<ID_RNG, NOW_MS, inp, bld, out, pinned, arg>>

NextGroup == GroupScreens

SpecGroup == InitGroup /\ [][NextGroup]_vars

(***************************************************************************)
(* Spec: one process calls build_scene again and again.  A call is the     *)
(* steps BuildBegin (lines 1658-1679), BuildLayout (one turn of the loop   *)
(* of lines 1681-1697) and BuildFinish (lines 1699-1751); the caller takes *)
(* the result or the exception in CallerResumes.                           *)
(***************************************************************************)
MaxPhrases == 2
BuildPhrasePool == {PHRASE.screen_A, PHRASE.header_Hi, PHRASE.text_a, PHRASE.list_b, PHRASE.chips_a_b, PHRASE.lib_badge, PHRASE.button_Go}

\* the lines of a text, one phrase a line
TextOf(ps) == Join(ps, <<"\n">>)
BuildTexts == {TextOf(ps) : ps \in SeqsUpTo(BuildPhrasePool, MaxPhrases) \ {<<>>}}

Seeds == {NoSeed, 0, 2}
\* what random.Random(None) is seeded from
Entropy == {0, 1}
Libraries == {NoLibrary, KitCatalog, MalformedCatalog}
Canvases ==
    {[preset |-> "mobile", size |-> NoScreenSize, theme |-> "classic", fidelity |-> "low"],
     [preset |-> "desktop", size |-> <<200, 100>>, theme |-> "blueprint", fidelity |-> "high"]}

\* the keyword arguments of build_scene
Request(text, canvas, seed, strict, library, prefer_library) ==
    [text |-> text, preset |-> canvas.preset, size |-> canvas.size, theme |-> canvas.theme,
     fidelity |-> canvas.fidelity, seed |-> seed, strict |-> strict, library |-> library,
     prefer_library |-> prefer_library]

Requests ==
    {Request(t, cv, s, strict, lib, pl) :
        t \in BuildTexts, cv \in Canvases, s \in Seeds, strict \in BOOLEAN, lib \in Libraries, pl \in BOOLEAN}

Init ==
    /\ pc = "idle"
    /\ ID_RNG = NotLive /\ NOW_MS = NoClock
    /\ inp = NoInput /\ bld = NoBuild /\ out = NoOutput /\ pinned = NoPinned
    /\ arg = <<>> /\ res = <<>>

\* lines 1658-1679 for the arguments req; e seeds random.Random(None)
Begin(req, e) ==
    /\ pc = "idle"
    /\ inp' = req
    /\ ID_RNG' = seeded_id_rng(req.seed)
    /\ NOW_MS' = seeded_clock(req.seed)
    /\ bld' = [rng |-> Random(req.seed, e), screens |-> group_screens(iter_phrases(req.text)),
               idx |-> 0, elements |-> <<>>, catalog |-> req.library.items]
    /\ out' = NoOutput
    /\ pc' = "layout"
    /\ pinned' = IF pinned.live THEN [pinned EXCEPT !.later = @ + 1] ELSE pinned
    /\ UNCHANGED <<arg, res>>

BuildBegin == \E req \in Requests, e \in Entropy : Begin(req, e)

\* builder of the call in progress
builder_of(req) == Builder(PRESETS[req.preset].grid_size, THEMES[req.theme], req.fidelity)

\* lines 1681-1697: the turn of the loop for the screen bld.idx (0-based)
BuildLayout ==
    /\ pc = "layout"
    /\ bld.idx < Len(bld.screens)
    /\ LET b == builder_of(inp)
           sz == screen_size(PRESETS[inp.preset], inp.size)
           screen == bld.screens[bld.idx + 1]
           extended(st) ==
               /\ bld' = [bld EXCEPT !.idx = @ + 1, !.elements = @ \o st.els, !.rng = st.c.rng,
                                      !.catalog = st.c.catalog]
               /\ ID_RNG' = st.c.idrng
       IN  extended(layout_screen(b, Ctx(ID_RNG, bld.rng, NOW_MS, bld.catalog), screen_x_of(b, bld.idx, sz[1]), 2 * b.grid,
                                  sz[1], sz[2], screen.name, screen.phrases, inp.library, inp.prefer_library, FALSE))
    /\ UNCHANGED <<pc, NOW_MS, inp, out, pinned, arg, res>>

\* lines 1699-1751: the document is assembled and, when strict, validated; a
\* ValueError leaves build_scene at line 1716, before lines 1749-1750
BuildFinish ==
    /\ pc = "layout"
    /\ bld.idx = Len(bld.screens)
    /\ LET preset == PRESETS[inp.preset]
           sz == screen_size(preset, inp.size)
           err == IF inp.strict THEN validate_scene(bld.elements, preset.grid_size) ELSE NoError
       IN  IF err.kind # "none"
           THEN /\ pc' = "raised"
                /\ out' = [outcome |-> "raised", error |-> err]
                /\ pinned' = IF pinned.live THEN [pinned EXCEPT !.failed = TRUE] ELSE pinned
                /\ UNCHANGED <<ID_RNG, NOW_MS>>
           ELSE /\ pc' = "returned"
                /\ out' = [outcome |-> "returned",
                           scene |-> Scene(bld.elements, preset, THEMES[inp.theme], Len(bld.screens)),
                           meta |-> Meta(bld.elements, preset, THEMES[inp.theme], inp.fidelity, inp.library,
                                         inp.prefer_library, bld.screens, sz[1], sz[2])]
                /\ ID_RNG' = NotLive
                /\ NOW_MS' = NoClock
                /\ UNCHANGED pinned
    /\ UNCHANGED <<inp, bld, arg, res>>

\* the caller has the document or the exception; the locals of the call are gone
CallerResumes ==
    /\ pc \in {"returned", "raised"}
    /\ pc' = "idle"
    /\ inp' = NoInput /\ bld' = NoBuild /\ out' = NoOutput
    /\ UNCHANGED <<ID_RNG, NOW_MS, pinned, arg, res>>

Next == BuildBegin \/ BuildLayout \/ BuildFinish \/ CallerResumes

Spec == Init /\ [][Next]_vars

(***************************************************************************)
(* SpecRepeat: the same process, with the document of one call kept aside  *)
(* (pinned) to compare the documents of later calls with.  later counts    *)
(* the calls begun after the kept one, failed tells whether one of them    *)
(* raised.                                                                 *)
(***************************************************************************)
MaxLater == 2
RepeatTexts == {TextOf(<<PHRASE.header_Hi>>), TextOf(<<PHRASE.chips_a_b>>)}
RepeatRequests ==
    {Request(t, cv, s, strict, lib, TRUE) :
        t \in RepeatTexts, cv \in {cv \in Canvases : cv.size = NoScreenSize}, s \in Seeds,
        strict \in BOOLEAN, lib \in {NoLibrary, KitCatalog}}

RepeatBegin ==
    /\ pinned.live => pinned.later < MaxLater
    /\ \E req \in RepeatRequests, e \in Entropy : Begin(req, e)

Pin ==
    /\ pc = "returned"
    /\ ~ pinned.live
    /\ pinned' = [live |-> TRUE, inp |-> inp, scene |-> out.scene, later |-> 0, failed |-> FALSE]
    /\ UNCHANGED <<pc, ID_RNG, NOW_MS, inp, bld, out, arg, res>>

NextRepeat == RepeatBegin \/ BuildLayout \/ BuildFinish \/ CallerResumes \/ Pin

SpecRepeat == Init /\ [][NextRepeat]_vars

(***************************************************************************)
(* SpecLayout: _layout_screen phrase by phrase, as build_scene calls it    *)
(* for its first screen.  bld.st is the state of the loop (elements,       *)
(* cursor, generators, and stop once the loop has left by break).          *)
(***************************************************************************)
MaxLayoutPhrases == 3
LayoutPhrasePool ==
    {PHRASE.header_Hi, PHRASE.text_a, PHRASE.list_b, PHRASE.chips_a_b, PHRASE.button_Go, PHRASE.divider,
     PHRASE.section_S, PHRASE.lib_badge}

\* _layout_screen is entered for the phrases ps of the first screen
StartLayout(ps, cv, lib, prefer_library) ==
    /\ pc = "phrase"
    /\ LET req == Request(TextOf(ps), cv, 0, TRUE, lib, prefer_library)
           b == builder_of(req)
           sz == screen_size(PRESETS[req.preset], req.size)
           c == Ctx(seeded_id_rng(0), Random(0, 0), seeded_clock(0), lib.items)
       IN  /\ inp = req
           /\ bld = [env |-> LayoutEnv(b, 2 * b.grid, 2 * b.grid, sz[1], sz[2], lib, prefer_library),
                     st |-> layout_begin(b, c, 2 * b.grid, 2 * b.grid, sz[1], sz[2], WORD.Screen, FALSE),
                     phrases |-> ps, i |-> 1]
    /\ ID_RNG = seeded_id_rng(0) /\ NOW_MS = seeded_clock(0)
    /\ out = NoOutput /\ pinned = NoPinned
    /\ arg = <<>> /\ res = <<>>

InitLayout ==
    \E ps \in SeqsUpTo(LayoutPhrasePool, MaxLayoutPhrases), cv \in Canvases, lib \in {NoLibrary, KitCatalog} :
        StartLayout(ps, cv, lib, TRUE)

\* one turn of the loop of lines 1302-1596
LayoutStep ==
    /\ pc = "phrase"
    /\ bld.i <= Len(bld.phrases)
    /\ ~ bld.st.stop
    /\ bld' = [bld EXCEPT !.st = layout_phrase(bld.env, bld.st, bld.phrases[bld.i]), !.i = @ + 1]
    /\ UNCHANGED <<pc, ID_RNG, NOW_MS, inp, out, pinned, arg, res>>

\* line 1598: the loop is over or left by break
LayoutDone ==
    /\ pc = "phrase"
    /\ bld.i > Len(bld.phrases) \/ bld.st.stop
    /\ pc' = "done"
    /\ res' = bld.st.els
    /\ UNCHANGED <<ID_RNG, NOW_MS, inp, bld, out, pinned, arg>>

NextLayout == LayoutStep \/ LayoutDone

SpecLayout == InitLayout /\ [][NextLayout]_vars

(***************************************************************************)
(* SpecChips: the same loop for screens of chips phrases, with and without *)
(* a catalog and with library use on and off.                              *)
(***************************************************************************)
MaxChipsPhrases == 3
ChipsPhrasePool == {PHRASE.chips_a_b, PHRASE.chips_blank, PHRASE.chips_quoted, PHRASE.chips_nine, PHRASE.text_a}

InitChips ==
    \E ps \in SeqsUpTo(ChipsPhrasePool, MaxChipsPhrases), cv \in Canvases, lib \in {NoLibrary, KitCatalog},
       prefer_library \in BOOLEAN :
        StartLayout(ps, cv, lib, prefer_library)

SpecChips == InitChips /\ [][NextLayout]_vars

(***************************************************************************)
(* SpecSnap: ExcalidrawBuilder.snap applied to whole and half pixels, for  *)
(* builders of several grid sizes (the constructor keeps the grid at 1 or  *)
(* more).                                                                  *)
(***************************************************************************)
MaxSnap == 60
SnapGrids == {0, 1, 8, 20}

InitSnap ==
    /\ pc = "call"
    /\ arg \in [grid : SnapGrids, num : (-MaxSnap)..MaxSnap, den : {1, 2}]
    /\ res = <<>>
    /\ ID_RNG = NotLive /\ NOW_MS = NoClock
    /\ inp = NoInput /\ bld = NoBuild /\ out = NoOutput /\ pinned = NoPinned

Snap ==
    /\ pc = "call"
    /\ res' = <<snap(Builder(arg.grid, THEMES.classic, "low"), arg.num, arg.den)>>
    /\ pc' = "done"
    /\ UNCHANGED <<ID_RNG, NOW_MS, inp, bld, out, pinned, arg>>

NextSnap == Snap

SpecSnap == InitSnap /\ [][NextSnap]_vars

(***************************************************************************)
(* SpecValidate: _validate_scene applied to scenes of a few elements, on   *)
(* the grid of the presets.  The elements are rectangles and texts that    *)
(* break none, one or several of the invariants.                           *)
(***************************************************************************)
MaxSceneLen == 3
SceneGrid == PRESETS.mobile.grid_size

SceneRect(n, bound) == RawElement(IF n = 0 THEN NoId ELSE LibId(n), "rectangle", 0, 0, 40, 20, <<>>, bound, NoId)
SceneText(n, container) ==
    RawText(LibId(n), 0, 0, 20, 20, <<>>, IF container = 0 THEN NoId ELSE LibId(container), <<"a">>, 16, "left")

SceneElements ==
    {SceneRect(1, <<>>), SceneRect(2, <<>>), SceneRect(0, <<>>),
     SceneRect(1, <<LibId(2)>>),
     [SceneRect(1, <<>>) EXCEPT !.isDeleted = TRUE],
     [SceneRect(1, <<>>) EXCEPT !.y = 5],
     [SceneRect(2, <<>>) EXCEPT !.x = 5, !.seerSource = "library"],
     SceneText(2, 0), SceneText(2, 1), SceneText(2, 3),
     [SceneText(2, 1) EXCEPT !.groupIds = <<LibId(91)>>],
     [SceneText(2, 1) EXCEPT !.x = 5],
     [SceneText(2, 0) EXCEPT !.isDeleted = TRUE]}

InitValidate ==
    /\ pc = "call"
    /\ arg \in SeqsUpTo(SceneElements, MaxSceneLen)
    /\ res = <<>>
    /\ ID_RNG = NotLive /\ NOW_MS = NoClock
    /\ inp = NoInput /\ bld = NoBuild /\ out = NoOutput /\ pinned = NoPinned

ValidateScene ==
    /\ pc = "call"
    /\ res' = validate_scene(arg, SceneGrid)
    /\ pc' = "done"
    /\ UNCHANGED <<ID_RNG, NOW_MS, inp, bld, out, pinned, arg>>

NextValidate == ValidateScene

SpecValidate == InitValidate /\ [][NextValidate]_vars

(***************************************************************************)
(* SpecInstantiate: instantiate_library_item called again and again within *)
(* one build, as the layout calls it, for fragments of one catalog.        *)
(* bld.instances keeps what each call was given and what it returned.      *)
(***************************************************************************)
MaxInstances == 2
InstanceCatalogs == {DrawnCatalog, MalformedCatalog}
InstanceAnchors == {<<0, 0>>, <<13, 27>>, <<50, 130>>}
InstanceLabels == {<<>>, <<" ">>, <<"G", "o">>}

InitInstantiate ==
    /\ pc = "instantiate"
    /\ \E lib \in InstanceCatalogs :
          bld = [b |-> Builder(PRESETS.mobile.grid_size, THEMES.classic, "low"), library |-> lib,
                 c |-> Ctx(seeded_id_rng(0), Random(0, 0), seeded_clock(0), lib.items), instances |-> <<>>]
    /\ ID_RNG = seeded_id_rng(0) /\ NOW_MS = seeded_clock(0)
    /\ inp = NoInput /\ out = NoOutput /\ pinned = NoPinned
    /\ arg = <<>> /\ res = <<>>

\* one call: the fragment at position n of the catalog, anchored at at, with
\* the label override label (<<>> for None)
InstantiateItem(n, at, label) ==
    LET inst == instantiate_library_item(bld.b, bld.c, bld.library.items[n], at[1], at[2], label, "lib")
    IN  bld' = [bld EXCEPT !.c = inst.c,
                           !.instances = Append(@, [item |-> n, x |-> at[1], y |-> at[2], label |-> label,
                                                    group |-> inst.group])]

Instantiate ==
    /\ pc = "instantiate"
    /\ Len(bld.instances) < MaxInstances
    /\ \E n \in 1..Len(bld.library.items), at \in InstanceAnchors, label \in InstanceLabels :
          InstantiateItem(n, at, label)
    /\ ID_RNG' = bld'.c.idrng
    /\ UNCHANGED <<pc, NOW_MS, inp, out, pinned, arg, res>>

NextInstantiate == Instantiate

SpecInstantiate == InitInstantiate /\ [][NextInstantiate]_vars

(***************************************************************************)
(* SpecFind: ExcalidrawLibrary.find applied to catalogs of a few fragments *)
(* with names as load_excalidraw_library leaves them (trimmed, not empty). *)
(***************************************************************************)
MaxCatalogLen == 3
FindNames == {<<"A", "b">>, <<"a", "b">>, <<"a">>, <<"x", "a", "b">>, <<"B", " ", "c">>}
FindQueries ==
    {<<>>, <<" ">>, <<"a">>, <<"A">>, <<"a", "b">>, <<"A", "B", " ">>, <<" ", "b">>, <<"c">>, <<"b", "c">>, <<"d">>}

NamedItem(name, n) == [name |-> name, id |-> LibId(100 + n), elements |-> Item_chips.elements]
NamedCatalog(names) == Catalog([n \in 1..Len(names) |-> NamedItem(names[n], n)])

InitFind ==
    /\ pc = "call"
    /\ arg \in [library : {NamedCatalog(names) : names \in SeqsUpTo(FindNames, MaxCatalogLen)}, query : FindQueries]
    /\ res = <<>>
    /\ ID_RNG = NotLive /\ NOW_MS = NoClock
    /\ inp = NoInput /\ bld = NoBuild /\ out = NoOutput /\ pinned = NoPinned

Find ==
    /\ pc = "call"
    /\ res' = <<find(arg.library, arg.query)>>
    /\ pc' = "done"
    /\ UNCHANGED <<ID_RNG, NOW_MS, inp, bld, out, pinned, arg>>

NextFind == Find

SpecFind == InitFind /\ [][NextFind]_vars

(***************************************************************************)
(* SpecList: the same loop for screens with list phrases of one, three and *)
(* nine items, with and without a catalog (the catalog holds no fragment   *)
(* for a list).                                                            *)
(***************************************************************************)
MaxListPhrases == 2
ListPhrasePool == {PHRASE.list_b, PHRASE.list_three, PHRASE.list_nine, PHRASE.text_a, PHRASE.header_Hi}

InitList ==
    \E ps \in SeqsUpTo(ListPhrasePool, MaxListPhrases), cv \in Canvases, lib \in {NoLibrary, KitCatalog},
       prefer_library \in BOOLEAN :
        StartLayout(ps, cv, lib, prefer_library)

SpecList == InitList /\ [][NextLayout]_vars

(***************************************************************************)
(* SpecTiling: build_scene for texts of one to MaxScreens screens, on the  *)
(* presets and on screen sizes given by the caller.                        *)
(***************************************************************************)
MaxScreens == 4
TilingSizes == {<<w, h>> : w \in {10, 30, 50, 390, 391, 1000}, h \in {10, 50, 844}}
TilingCanvases ==
    {[preset |-> p, size |-> sz, theme |-> "classic", fidelity |-> "low"] :
        p \in DOMAIN PRESETS, sz \in TilingSizes \cup {NoScreenSize}}
TilingTexts ==
    {TextOf([k \in 1..(2 * n) |-> IF k % 2 = 1 THEN PHRASE.screen_A ELSE ph]) :
        n \in 1..MaxScreens, ph \in {PHRASE.text_a, PHRASE.button_Go}}

TilingBegin ==
    \E t \in TilingTexts, cv \in TilingCanvases, strict \in BOOLEAN :
        Begin(Request(t, cv, 0, strict, NoLibrary, FALSE), 0)

NextTiling == TilingBegin \/ BuildLayout \/ BuildFinish \/ CallerResumes

SpecTiling == Init /\ [][NextTiling]_vars

(***************************************************************************)
(* The command line                                                        *)
(***************************************************************************)
\* U+00D7, the multiplication sign, one character
Times == "times"

IsDigit(c) == IndexIn(c, DigitChars) > 0

\* int() of a string of decimal digits
RECURSIVE ToInt(_)
ToInt(ds) == IF ds = <<>> THEN 0 ELSE 10 * ToInt(Take(ds, Len(ds) - 1)) + (IndexIn(ds[Len(ds)], DigitChars) - 1)

\* the number of digits of s in a row from position i on
RECURSIVE digit_run(_, _)
digit_run(s, i) == IF i <= Len(s) /\ IsDigit(s[i]) THEN 1 + digit_run(s, i + 1) ELSE 0

\* the first position from i on that holds no blank
RECURSIVE skip_blanks(_, _)
skip_blanks(s, i) == IF i <= Len(s) /\ IsSpace(s[i]) THEN skip_blanks(s, i + 1) ELSE i

\* (\d{2,5})\s*[x×]\s*(\d{2,5}) matches at position i: the digits from i on are
\* two to five and end before the blanks and the sign
size_matches_at(s, i) ==
    /\ digit_run(s, i) \in 2..5
    /\ skip_blanks(s, i + digit_run(s, i)) <= Len(s)
    /\ s[skip_blanks(s, i + digit_run(s, i))] \in {"x", Times}
    /\ digit_run(s, skip_blanks(s, skip_blanks(s, i + digit_run(s, i)) + 1)) >= 2

\* _infer_size: re.search takes the leftmost match; None is NoScreenSize
infer_size(s) ==
    LET at == {i \in 1..Len(s) : size_matches_at(s, i)}
        pair(w, h) == IF w < 100 \/ h < 100 THEN NoScreenSize ELSE <<w, h>>
        groups(i, j) == pair(ToInt(SubSeq(s, i, i + digit_run(s, i) - 1)),
                             ToInt(SubSeq(s, j, j + MinOf(5, digit_run(s, j)) - 1)))
        matched(i) == groups(i, skip_blanks(s, skip_blanks(s, i + digit_run(s, i)) + 1))
    IN  IF at = {} THEN NoScreenSize ELSE matched(Min(at))

\* _infer_preset: a preset named as a word, then the platform words
infer_preset(text) ==
    LET lowered == Lower(text)
    IN  IF has_word(lowered, << <<"m","o","b","i","l","e">> >>) THEN "mobile"
        ELSE IF has_word(lowered, << <<"d","e","s","k","t","o","p">> >>) THEN "desktop"
        ELSE IF has_word(lowered, << <<"t","a","b","l","e","t">> >>) THEN "tablet"
        ELSE IF \/ Contains(lowered, <<"i","p","h","o","n","e">>) \/ Contains(lowered, <<"i","o","s">>)
                \/ Contains(lowered, <<"a","n","d","r","o","i","d">>) \/ Contains(lowered, <<"m","o","b","i","l","e">>)
        THEN "mobile"
        ELSE IF Contains(lowered, <<"d","e","s","k","t","o","p">>) \/ Contains(lowered, <<"w","e","b">>)
        THEN "desktop"
        ELSE "mobile"

\* an option that was not given (None)
NoArg == <<"None">>
\* `if args.x:` for a string option
Given(v) == v # NoArg /\ v # <<>>

\* main has not returned
NoCode == -1

\* _stable_seed: the SHA-256 digest of the parts is not computed; its place is
\* taken by a fixed function of the text and of the other parts in the same
\* range of non-negative integers
SeedRange == 1048576
RECURSIVE text_digest(_)
text_digest(t) ==
    IF t = <<>> THEN 7
    ELSE (31 * text_digest(Take(t, Len(t) - 1))
          + IndexIn(t[Len(t)], LowerLetters \o UpperLetters \o DigitChars \o <<" ", "\n", ":", ",", "-", ".">>))
         % SeedRange
stable_seed(text, preset_name, size, theme_name, fidelity) ==
    (text_digest(text)
     + 101 * (CHOOSE k \in 1..3 : <<"mobile", "desktop", "tablet">>[k] = preset_name)
     + (IF size = NoScreenSize THEN 0 ELSE 7 * size[1] + 13 * size[2])
     + 1009 * (CHOOSE k \in 1..3 : <<"low", "medium", "high">>[k] = fidelity)
     + (IF theme_name = "classic" THEN 0 ELSE 5003)) % SeedRange

\* what is at the path of the catalog: nothing, a file that is not a JSON
\* object, or a document with its raw items
NoFile == [exists |-> FALSE, parses |-> FALSE, items |-> <<>>]
GarbledFile == [exists |-> TRUE, parses |-> FALSE, items |-> <<>>]
Document(items) == [exists |-> TRUE, parses |-> TRUE, items |-> items]

\* load_excalidraw_library for a document that parses: the items without
\* elements are left out
load_excalidraw_library(file) ==
    Catalog(keep_where(file.items, [i \in 1..Len(file.items) |-> file.items[i].elements # <<>>]))

\* lines 1828-1837: the catalog, prefer_library, and what is written to stderr
chosen_library(no_library, file) ==
    IF no_library \/ ~ file.exists THEN [library |-> NoLibrary, prefer_library |-> FALSE, stderr |-> <<>>]
    ELSE IF ~ file.parses
    THEN [library |-> NoLibrary, prefer_library |-> FALSE, stderr |-> <<"warning: failed to load library">>]
    ELSE [library |-> load_excalidraw_library(file), prefer_library |-> TRUE, stderr |-> <<>>]

\* the file at the path --spec names: its text, or Unreadable
Unreadable == <<"OSError">>
SpecFileAt(path) ==
    IF path = <<"p">> THEN TextOf(<<PHRASE.header_Hi, PHRASE.button_Go>>) ELSE Unreadable

\* lines 1778-1789: the text main works on (Unreadable when open() raised)
input_text(a) ==
    IF Given(a.spec) THEN (IF SpecFileAt(a.spec) = Unreadable THEN Unreadable ELSE Strip(SpecFileAt(a.spec)))
    ELSE IF Given(a.text) THEN Strip(a.text)
    ELSE Strip(a.stdin)

\* lines 1796-1803
chosen_size(a, text) == IF Given(a.size) THEN infer_size(a.size) ELSE infer_size(text)

\* lines 1774-1801: the message of the usage error main returns 2 with, or ""
usage_error(a) ==
    IF Given(a.text) /\ Given(a.spec) THEN "error: pass only one of --text or --spec"
    ELSE IF input_text(a) = Unreadable THEN "error: failed to read --spec"
    ELSE IF input_text(a) = <<>> THEN "error: empty input text"
    ELSE IF Given(a.size) /\ infer_size(a.size) = NoScreenSize THEN "error: invalid --size"
    ELSE ""

\* lines 1794-1849: the keyword arguments main calls build_scene with
main_request(a, text, preset, size, lib) ==
    [text |-> text, preset |-> preset, size |-> size, theme |-> "classic", fidelity |-> "medium",
     seed |-> IF a.seed # NoSeed THEN a.seed ELSE stable_seed(text, preset, size, "classic", "medium"),
     strict |-> ~ a.no_strict, library |-> lib.library, prefer_library |-> lib.prefer_library]

(***************************************************************************)
(* SpecMain: one run of main.  arg is the command line with what the run   *)
(* finds outside (standard input, the file at the catalog path, whether    *)
(* the output path can be written); res is what the run has given so far:  *)
(* the exit code, the lines on stderr, and whether the output document was *)
(* written.  Between MainArgs and MainWrite the run is inside build_scene. *)
(***************************************************************************)
MainTexts == {NoArg, <<>>, <<" ">>, TextOf(<<PHRASE.header_Hi, PHRASE.button_Go>>), TextOf(<<PHRASE.text_a, PHRASE.list_b>>)}
MainSpecs == {NoArg, <<>>, <<"p">>, <<"q">>}
MainStdins == {<<>>, TextOf(<<PHRASE.header_Hi, PHRASE.button_Go>>)}
MainSizes ==
    {NoArg, <<>>, <<"2","0","0","x","1","0","0">>, <<"2","0","0","x">>, <<"5","0","x","5","0">>,
     <<"a","2","0","0","x","1","0","0","b">>}
MainCatalogFiles == {NoFile, GarbledFile, Document(<<>>), Document(KitCatalog.items)}

Commands ==
    [text : MainTexts, spec : MainSpecs, stdin : MainStdins, size : MainSizes, seed : {NoSeed, 0},
     no_library : BOOLEAN, no_strict : BOOLEAN, library_file : MainCatalogFiles, out_writable : BOOLEAN]

InitMain ==
    /\ pc = "start"
    /\ arg \in Commands
    /\ res = [code |-> NoCode, stderr |-> <<>>, written |-> FALSE]
    /\ ID_RNG = NotLive /\ NOW_MS = NoClock
    /\ inp = NoInput /\ bld = NoBuild /\ out = NoOutput /\ pinned = NoPinned

\* lines 1772-1837: a usage error ends the run with 2; otherwise the run
\* stands before the call of build_scene
MainArgs ==
    /\ pc = "start"
    /\ IF usage_error(arg) # ""
       THEN /\ pc' = "exited"
            /\ res' = [res EXCEPT !.code = 2, !.stderr = Append(@, usage_error(arg))]
            /\ inp' = inp
       ELSE LET called(text, lib) ==
                    /\ inp' = main_request(arg, text, infer_preset(text), chosen_size(arg, text), lib)
                    /\ res' = [res EXCEPT !.stderr = @ \o lib.stderr]
            IN  /\ pc' = "idle"
                /\ called(input_text(arg), chosen_library(arg.no_library, arg.library_file))
    /\ UNCHANGED <<ID_RNG, NOW_MS, bld, out, pinned, arg>>

\* lines 1839-1849 and 1658-1679: main enters build_scene
MainBuild == Begin(inp, 0)

\* lines 1850-1884: the document is written and main returns 0; an output path
\* that cannot be written ends the run by the exception of open()
MainWrite ==
    /\ pc = "returned"
    /\ pc' = "exited"
    /\ res' = IF arg.out_writable THEN [res EXCEPT !.code = 0, !.written = TRUE] ELSE [res EXCEPT !.code = 1]
    /\ UNCHANGED <<ID_RNG, NOW_MS, inp, bld, out, pinned, arg>>

\* the ValueError of build_scene leaves main and ends the run with status 1
MainRaised ==
    /\ pc = "raised"
    /\ pc' = "exited"
    /\ res' = [res EXCEPT !.code = 1, !.stderr = Append(@, "ValueError")]
    /\ UNCHANGED <<ID_RNG, NOW_MS, inp, bld, out, pinned, arg>>

NextMain == MainArgs \/ MainBuild \/ BuildLayout \/ BuildFinish \/ MainWrite \/ MainRaised

SpecMain == InitMain /\ [][NextMain]_vars

(***************************************************************************)
(* Claims about build_scene                                                *)
(***************************************************************************)
\* the elements of the document build_scene has returned
Returned == pc = "returned"
Doc == out.scene.elements
ActiveGrid == PRESETS[inp.preset].grid_size

\* C1: for fixed arguments with a non-null seed, two calls of build_scene
\* return identical documents (elements in order, ids, seed and versionNonce
\* stamps, `updated` timestamps), whatever calls, successful or failed, ran
\* before or between them in the same process.
C1_RepeatedBuildsAgree ==
    (Returned /\ pinned.live /\ pinned.inp = inp /\ inp.seed # NoSeed) => out.scene = pinned.scene

\* a later call with the arguments of the kept one has returned, after a call
\* in between raised
C1_Witness ==
    /\ Returned /\ pinned.live /\ pinned.inp = inp /\ inp.seed # NoSeed
    /\ pinned.later >= 2 /\ pinned.failed
    /\ Len(Doc) > 1

OnGrid(el) == el.x % ActiveGrid = 0 /\ el.y % ActiveGrid = 0

\* C2: in every document build_scene returns, every element that is not
\* marked library-sourced has x and y that are exact multiples of the grid
\* size.
C2_ReturnedOnGrid ==
    Returned => \A i \in 1..Len(Doc) : Doc[i].seerSource # "library" => OnGrid(Doc[i])

\* the text at position i of els is bound to a container of els that shares
\* its groups and refers back to it
BoundBothWays(els, i) ==
    \E j \in 1..Len(els) :
        /\ els[j].id = els[i].containerId
        /\ els[j].groupIds = els[i].groupIds
        /\ \E k \in 1..Len(els[j].boundElements) :
               els[j].boundElements[k] = [type |-> "text", id |-> els[i].id]

BindingsSymmetric(els) ==
    \A i \in 1..Len(els) : (els[i].type = "text" /\ els[i].containerId # NoId) => BoundBothWays(els, i)

\* C3: in every document build_scene returns, every text with a non-null
\* containerId has its container in the document, with equal groupIds and a
\* boundElements entry for the text; also for the texts of instantiated
\* fragments after fit, header simplification, normalization and relabeling.
C3_ReturnedBindingsSymmetric == Returned => BindingsSymmetric(Doc)

IdsUnique(els) ==
    \A i \in 1..Len(els) : els[i].id # NoId /\ \A j \in 1..Len(els) : els[j].id = els[i].id => j = i

\* C4 as stated: in every document build_scene returns, all element ids are
\* non-empty and pairwise distinct.
C4_ReturnedIdsUnique == Returned => IdsUnique(Doc)

\* C4: in every document build_scene returns with validation enabled, or
\* with a catalog (or none) whose fragments each hold elements with non-empty
\* ids distinct within the fragment, all element ids are non-empty and
\* pairwise distinct, across screens and fragment instances.
C4_IdsUniqueWhenCheckedOrWellFormed ==
    (Returned /\ (inp.strict \/ WellFormedIds(inp.library))) => IdsUnique(Doc)

\* an unchecked document with two screens and two instances of the chips fragment
C4_Witness ==
    /\ Returned /\ ~ inp.strict /\ inp.library = KitCatalog
    /\ Len(bld.screens) > 1
    /\ Cardinality({i \in 1..Len(Doc) : Doc[i].seerSource = "library" /\ Doc[i].seerLabel = "chips"
                                          /\ Doc[i].type = "rectangle"}) >= 2

\* what the validator checks, said at once
SceneOK(els, grid) ==
    /\ IdsUnique(els)
    /\ \A i \in 1..Len(els) : ~ els[i].isDeleted
    /\ BindingsSymmetric(els)
    /\ \A i \in 1..Len(els) : els[i].seerSource # "library" => (els[i].x % grid = 0 /\ els[i].y % grid = 0)

HasDuplicateId(els, id) == \E i, j \in 1..Len(els) : i # j /\ els[i].id = id /\ els[j].id = id

\* C5: with validation enabled, build_scene raises exactly when the
\* assembled elements violate an invariant of the validator, and then returns
\* no document; when the elements all have ids and some id is repeated, the
\* error is the duplicate-id error and names a repeated id.  With validation
\* disabled build_scene returns the assembled elements unchecked.
C5_ValidationSwitch ==
    pc \in {"returned", "raised"} =>
        /\ inp.strict => (pc = "raised" <=> ~ SceneOK(bld.elements, ActiveGrid))
        /\ pc = "raised" => (out.outcome = "raised" /\ "scene" \notin DOMAIN out)
        /\ (pc = "raised" /\ out.error.kind = "duplicate element id") => HasDuplicateId(bld.elements, out.error.id)
        /\ (inp.strict /\ ~ IdsUnique(bld.elements) /\ \A i \in 1..Len(bld.elements) : bld.elements[i].id # NoId)
               => (pc = "raised" /\ out.error.kind = "duplicate element id")
        /\ ~ inp.strict => (Returned /\ Doc = bld.elements)

\* a checked build has raised the duplicate-id error
C5_Witness ==
    /\ pc = "raised" /\ inp.strict
    /\ out.error.kind = "duplicate element id"
    /\ HasDuplicateId(bld.elements, out.error.id)

\* C6: _ID_RNG and _NOW_MS are set only while a build is in progress; after a
\* call of build_scene has ended, by return or by a validation error, both
\* are unset.
C6_UnsetBetweenBuilds ==
    pc \in {"idle", "returned", "raised"} => (~ ID_RNG.live /\ ~ NOW_MS.live)

(***************************************************************************)
(* Claims about _layout_screen                                             *)
(***************************************************************************)
Bottom == bld.env.screen_y + bld.env.screen_h - bld.env.g

\* C7: after each emitted component of any type, as soon as the cursor
\* exceeds screen_y + screen_h - margin the loop has emitted the
\* "(more omitted...)" caption as its last element and emits nothing for the
\* later phrases.
C7_OverflowStopsLayout ==
    (pc = "phrase" /\ bld.st.y > Bottom) =>
        (bld.st.stop /\ bld.st.els[Len(bld.st.els)].text = WORD.more_omitted)

(***************************************************************************)
(* Claims about the screen grouper                                         *)
(***************************************************************************)
\* positions of the phrases that classify as `screen`, in source order
RECURSIVE MarkerSeq(_, _)
MarkerSeq(phrases, i) ==
    IF i > Len(phrases) THEN <<>>
    ELSE IF parse_component(phrases[i]).type = "screen" THEN <<i>> \o MarkerSeq(phrases, i + 1)
    ELSE MarkerSeq(phrases, i + 1)

\* the non-screen phrases after the k-th marker, up to the next marker or the end
Between(phrases, ms, k) ==
    SubSeq(phrases, ms[k] + 1, (IF k < Len(ms) THEN ms[k + 1] ELSE Len(phrases) + 1) - 1)

MarkerValue(phrases, ms, k) == Strip(parse_component(phrases[ms[k]]).value)

\* the phrases before the first marker
Leading(phrases, ms) == SubSeq(phrases, 1, ms[1] - 1)

IsScreenN(name) == \E n \in 1..(MaxGroupPhrases + 2) : name = WORD.Screen \o <<" ">> \o ToDec(n)

\* C8 as stated: with at least one marker, there is exactly one ScreenSpec per
\* `screen` phrase, in marker order, named by the marker's value (or "Screen N"
\* for a blank value) and holding exactly the phrases between that marker and
\* the next one.
C8_OneScreenPerMarker ==
    pc = "done" =>
        LET ms == MarkerSeq(arg, 1)
        IN  ms # <<>> =>
              /\ Len(res) = Len(ms)
              /\ \A k \in 1..Len(res) :
                    /\ k <= Len(ms)
                    /\ res[k].phrases = Between(arg, ms, k)
                    /\ IF MarkerValue(arg, ms, k) # <<>> THEN res[k].name = MarkerValue(arg, ms, k)
                                                         ELSE IsScreenN(res[k].name)

\* C8 amended: the phrases before the first marker, when there are any, form one
\* more ScreenSpec at the front, named "Screen 1"; after it comes exactly one
\* ScreenSpec per `screen` phrase, in marker order, holding exactly the phrases
\* between its marker and the next (possibly none), named by the marker's value
\* or, for a blank value, "Screen N" with N its position in the result.
C8_ScreensPerMarkerAfterLeading ==
    pc = "done" =>
        LET ms == MarkerSeq(arg, 1)
            off == IF Leading(arg, ms) # <<>> THEN 1 ELSE 0
        IN  ms # <<>> =>
              /\ Len(res) = Len(ms) + off
              /\ off = 1 => res[1] = ScreenSpec(WORD.Screen \o <<" ", "1">>, Leading(arg, ms))
              /\ \A k \in 1..Len(ms) :
                    /\ res[k + off].phrases = Between(arg, ms, k)
                    /\ res[k + off].name =
                          IF MarkerValue(arg, ms, k) # <<>> THEN MarkerValue(arg, ms, k)
                          ELSE WORD.Screen \o <<" ">> \o ToDec(k + off)

\* reached: two markers after a leading phrase give three ScreenSpecs, the last two
\* in marker order, one of them without phrases
C8_Witness ==
    /\ pc = "done"
    /\ Len(MarkerSeq(arg, 1)) = 2
    /\ Leading(arg, MarkerSeq(arg, 1)) # <<>>
    /\ Len(res) = 3
    /\ \E k \in 2..3 : res[k].phrases = <<>>

\* C9 as stated: when no phrase classifies as `screen`, the result is exactly one
\* ScreenSpec, named "Screen", holding the whole phrase sequence in order.
C9_ImplicitScreenNamedScreen ==
    (pc = "done" /\ MarkerSeq(arg, 1) = <<>>) => res = <<ScreenSpec(WORD.Screen, arg)>>

(***************************************************************************)
(* Claims about the phrase extractor                                       *)
(***************************************************************************)
\* C10 as stated: for every input text the phrase sequence is non-empty and every
\* phrase is trimmed and non-empty.
C10_PhrasesNonEmptyTrimmed ==
    pc = "done" =>
        /\ res # <<>>
        /\ \A i \in 1..Len(res) : res[i] # <<>> /\ Strip(res[i]) = res[i]

\* C12: for N screens of screenWidth x screenHeight the metadata build_scene
\* returns reports canvas_width = 2*outer + N*screenWidth + (N-1)*gap and
\* canvas_height = 2*outer + screenHeight, with outer = 2*grid and gap = 4*grid;
\* for two screens the width is 2*outer + 2*screenWidth + gap.
C12_CanvasSize ==
    Returned =>
        LET N == Len(out.meta.screens)
            screenWidth == IF inp.size # NoScreenSize THEN inp.size[1] ELSE PRESETS[inp.preset].width
            screenHeight == IF inp.size # NoScreenSize THEN inp.size[2] ELSE PRESETS[inp.preset].height
            outer == 2 * ActiveGrid
            gap == 4 * ActiveGrid
        IN  /\ N >= 1
            /\ out.meta.layout.screen_width = screenWidth
            /\ out.meta.layout.canvas_width = 2 * outer + N * screenWidth + (N - 1) * gap
            /\ out.meta.layout.canvas_height = 2 * outer + screenHeight
            /\ N = 2 => out.meta.layout.canvas_width = 2 * outer + 2 * screenWidth + gap

\* a document of two screens of a size given by the caller has been returned
C12_Witness ==
    /\ Returned
    /\ Len(out.meta.screens) = 2
    /\ inp.size # NoScreenSize
    /\ out.meta.layout.canvas_width = 560

\* the phrase asks for a fragment by a name the catalog does not hold, or
\* there is no catalog
IsLibMiss(env, phrase) ==
    /\ parse_component(phrase).type \in {"lib", "library"}
    /\ \/ ~ env.library.loaded
       \/ find(env.library, split_once(parse_component(phrase).value)[1]) = 0

\* a caption on its own: a text outside any container, group and fragment
IsPlainCaption(el, text) ==
    /\ el.type = "text" /\ el.text = text
    /\ el.containerId = NoId /\ el.groupIds = <<>> /\ el.seerSource # "library"

\* C13: the turn of the layout loop for a lib:/library: phrase whose fragment
\* name matches nothing in the catalog (or without a catalog) adds exactly one
\* plain caption reading "lib: " and the value of the phrase, and the loop
\* goes on to the phrase after it.
C13_LibMissCaption ==
    [][(pc = "phrase" /\ bld'.i = bld.i + 1 /\ IsLibMiss(bld.env, bld.phrases[bld.i])) =>
            /\ Len(bld'.st.els) = Len(bld.st.els) + 1
            /\ SubSeq(bld'.st.els, 1, Len(bld.st.els)) = bld.st.els
            /\ IsPlainCaption(bld'.st.els[Len(bld'.st.els)],
                              WORD.lib_colon \o parse_component(bld.phrases[bld.i]).value)
            /\ ~ bld'.st.stop
            /\ pc' = "phrase"]_vars

\* a missing fragment was asked for, its caption stands in the screen and the
\* phrase after it has been laid out behind the caption
C13_Witness ==
    /\ pc = "phrase" /\ bld.i = 3
    /\ bld.env.library.loaded
    /\ IsLibMiss(bld.env, bld.phrases[1])
    /\ bld.phrases[2] = PHRASE.button_Go
    /\ \E k \in 1..Len(bld.st.els) :
          /\ IsPlainCaption(bld.st.els[k], WORD.lib_colon \o <<"b","a","d","g","e">>)
          /\ k < Len(bld.st.els)
          /\ bld.st.els[k + 1].type = "rectangle"

\* the elements of the screen that come from fragments, by the component they
\* were instantiated for
FromFragment(els, label) == {k \in 1..Len(els) : els[k].seerSource = "library" /\ els[k].seerLabel = label}

\* C16: whatever the layout has done so far (instantiating, fitting, moving,
\* recolouring, normalising, relabelling, simplifying a header), every
\* LibraryItem of the catalog holds the element records it was loaded with,
\* and the group in hand is made of objects of its own, so that a change of
\* one instance reaches neither the catalog nor another instance.
C16_CatalogUnchanged ==
    pc \in {"phrase", "done"} =>
        /\ bld.st.c.catalog = bld.env.library.items
        /\ bld.st.c.alias = NoId

\* a header and two chips from fragments stand in the finished screen
C16_Witness ==
    /\ pc = "done"
    /\ bld.env.library.loaded
    /\ FromFragment(res, "header") # {}
    /\ Cardinality({k \in FromFragment(res, "chips") : res[k].type = "rectangle"}) = 2
    /\ \E k \in FromFragment(res, "chips") : res[k].text = <<"b">>

\* the turn of the loop that is about to run is for a chips phrase
ChipsTurn == pc = "phrase" /\ bld.i <= Len(bld.phrases) /\ parse_component(bld.phrases[bld.i]).type = "chips"
ChipsItems == split_items(parse_component(bld.phrases[bld.i]).value)
\* library use is on and the catalog holds a fragment for chips
ChipsFragment ==
    IF bld.env.prefer_library /\ bld.env.library.loaded THEN find(bld.env.library, WORD.chips) ELSE 0

\* the elements the turn has added
Added(before, after) == SubSeq(after, Len(before) + 1, Len(after))

\* new is one plain caption reading text
OneCaption(new, text) == Len(new) = 1 /\ IsPlainCaption(new[1], text)

\* new is n copies of the fragment, all from the catalog and marked chips, the
\* k-th copy relabelled with the k-th item and lying to the right of the one
\* before it
CopiesInOrder(new, fragment, items, n) ==
    LET m == Len(fragment.elements)
        copy(k) == SubSeq(new, (k - 1) * m + 1, k * m)
    IN  /\ Len(new) = n * m
        /\ \A j \in 1..Len(new) : new[j].seerSource = "library" /\ new[j].seerLabel = "chips"
        /\ \A k \in 1..n : \E j \in 1..m : copy(k)[j].type = "text" /\ copy(k)[j].text = items[k]
        /\ \A k \in 1..(n - 1) : bbox_for_elements(copy(k)).x1 < bbox_for_elements(copy(k + 1)).x0

MobilePrimitive ==
    /\ Returned
    /\ inp.preset = "mobile" /\ inp.size = NoScreenSize /\ ~ inp.prefer_library
    /\ Len(out.meta.screens) = 1

\* the content column of the first screen: the screen stands at the outer
\* margin (two grid units) and keeps a margin of one grid unit on either side
ContentLeft == 2 * ActiveGrid + ActiveGrid
ContentWidth == PRESETS[inp.preset].width - 2 * ActiveGrid
ContentTop == 2 * ActiveGrid + ActiveGrid

PrimitiveRects(label) ==
    {k \in 1..Len(Doc) : Doc[k].type = "rectangle" /\ Doc[k].seerLabel = label /\ Doc[k].seerSource # "library"}

\* C18: on the mobile preset without the library, the rectangle of a button
\* has its midpoint at the midpoint of the content column, and a button that
\* follows a header lies beneath the header.
C18_ButtonCentred ==
    MobilePrimitive =>
        /\ \A k \in PrimitiveRects("button") : 2 * Doc[k].x + Doc[k].width = 2 * ContentLeft + ContentWidth
        /\ \A k \in PrimitiveRects("button"), h \in PrimitiveRects("header") :
              h < k => Doc[k].y >= Doc[h].y + Doc[h].height

\* C19: on the mobile preset without the library, a header that is the first
\* component is a rectangle with its top-left corner at the left edge of the
\* content column and the top margin of the screen, as wide as the content
\* column (the screen less the two side margins).
C19_HeaderSpansContent ==
    (MobilePrimitive /\ parse_component(iter_phrases(inp.text)[1]).type = "header") =>
        /\ Len(Doc) >= 2
        /\ Doc[2].type = "rectangle" /\ Doc[2].seerLabel = "header"
        /\ Doc[2].x = ContentLeft /\ Doc[2].y = ContentTop
        /\ Doc[2].width = ContentWidth

\* C20: no element of a document build_scene returns has isDeleted set, the
\* copies of fragment elements that are deleted in the catalog included.
C20_NoTombstones == Returned => \A k \in 1..Len(Doc) : ~ Doc[k].isDeleted

\* the returned document holds the copy of a fragment element that is deleted
\* in the catalog
C20_Witness ==
    /\ Returned
    /\ \E n \in 1..Len(inp.library.items) : \E j \in 1..Len(inp.library.items[n].elements) :
          /\ inp.library.items[n].elements[j].isDeleted
          /\ \E k \in 1..Len(Doc) :
                /\ Doc[k].seerSource = "library"
                /\ Doc[k].type = inp.library.items[n].elements[j].type
                /\ Doc[k].width = inp.library.items[n].elements[j].width
                /\ ~ Doc[k].isDeleted

\* C21: with library use disabled (no catalog, no preference for fragments)
\* and validation enabled, build_scene raises no validation error, whatever
\* the text: the layout of primitives passes every check of the validator.
C21_PrimitiveLayoutValid ==
    (pc \in {"returned", "raised"} /\ inp.strict /\ ~ inp.prefer_library /\ inp.library = NoLibrary) =>
        pc = "returned"

(***************************************************************************)
(* Claims about snap                                                       *)
(***************************************************************************)
\* the grid of the builder snap was called on, and twice the distance of the
\* result from the value arg.num / arg.den, in units of 1 / arg.den
SnapGrid == MaxOf(1, arg.grid)
SnapOff == arg.den * res[1] - arg.num
SnapIsTie == (IF SnapOff >= 0 THEN 2 * SnapOff ELSE -2 * SnapOff) = arg.den * SnapGrid
SnapNearest ==
    /\ res[1] % SnapGrid = 0
    /\ 2 * SnapOff <= arg.den * SnapGrid /\ -2 * SnapOff <= arg.den * SnapGrid

\* C22 as stated: snap(v) is the multiple of the grid nearest to v, and of two
\* multiples equally near the one farther from zero (grid 20: 10 -> 20,
\* 50 -> 60, -10 -> -20).
C22_SnapTiesAwayFromZero ==
    pc = "done" =>
        /\ SnapNearest
        /\ SnapIsTie => (IF arg.num >= 0 THEN SnapOff > 0 ELSE SnapOff < 0)

\* C22: snap(v) is the multiple of the grid nearest to v, and of two multiples
\* equally near the even multiple (grid 20: 10 -> 0, 30 -> 40, 50 -> 40,
\* -10 -> 0).
C22_SnapTiesToEven ==
    pc = "done" =>
        /\ SnapNearest
        /\ SnapIsTie => (res[1] \div SnapGrid) % 2 = 0

\* 50 on the grid of 20 lies halfway between 40 and 60 and has been snapped
C22_Witness ==
    pc = "done" /\ arg = [grid |-> 20, num |-> 50, den |-> 1] /\ SnapIsTie /\ res = <<40>>

(***************************************************************************)
(* Claims about _validate_scene                                            *)
(***************************************************************************)
\* what is wrong with the scene arg, invariant by invariant
IdFaults == {i \in 1..Len(arg) : arg[i].id = NoId \/ \E j \in 1..Len(arg) : j # i /\ arg[j].id = arg[i].id}
DeletedFaults == {i \in 1..Len(arg) : arg[i].isDeleted}
BindingFaults == {i \in 1..Len(arg) : arg[i].type = "text" /\ arg[i].containerId # NoId /\ ~ BoundBothWays(arg, i)}
GridFaults ==
    {i \in 1..Len(arg) : arg[i].seerSource # "library" /\ (arg[i].x % SceneGrid # 0 \/ arg[i].y % SceneGrid # 0)}

IdErrors == {"element missing id", "duplicate element id"}
BindingErrors == {"references missing containerId", "text/container groupIds mismatch", "missing boundElements reference"}
GridErrors == {"not snapped to grid (x)", "not snapped to grid (y)"}

\* what the first pass finds wrong with the element at i, given the elements before it
FirstPassFault(i) ==
    IF arg[i].id = NoId THEN "element missing id"
    ELSE IF \E j \in 1..(i - 1) : arg[j].id = arg[i].id THEN "duplicate element id"
    ELSE IF arg[i].isDeleted THEN "isDeleted element present"
    ELSE "none"
FirstPassFaults == {i \in 1..Len(arg) : FirstPassFault(i) # "none"}

\* C23 as stated: the error is the one of the earliest violated check in the
\* order ids of all elements, deletion flags of all elements, bindings, grid;
\* a duplicate id anywhere is reported before a deleted element anywhere.
C23_ChecksInStatedOrder ==
    pc = "done" =>
        IF IdFaults # {} THEN res.kind \in IdErrors
        ELSE IF DeletedFaults # {} THEN res.kind = "isDeleted element present"
        ELSE IF BindingFaults # {} THEN res.kind \in BindingErrors
        ELSE IF GridFaults # {} THEN res.kind \in GridErrors
        ELSE res = NoError

\* C23: one pass over the elements checks each in turn for its id (non-empty,
\* not the id of an element before it) and then for its deletion flag, and the
\* error is that of the first element at fault; a scene that passes is checked
\* for the bindings of its texts, and after them for grid alignment.
C23_ChecksInPassOrder ==
    pc = "done" =>
        IF FirstPassFaults # {} THEN res.kind = FirstPassFault(Min(FirstPassFaults))
        ELSE IF BindingFaults # {} THEN res.kind \in BindingErrors /\ arg[Min(BindingFaults)].id \in {res.id, res.other}
        ELSE IF GridFaults # {} THEN res.kind \in GridErrors /\ res.id = arg[Min(GridFaults)].id
        ELSE res = NoError

\* a deleted element stands before two elements of one id, and the deletion
\* is what the validator reported
C23_Witness ==
    /\ pc = "done"
    /\ Len(arg) = 3 /\ arg[1].isDeleted /\ arg[2].id = arg[3].id /\ arg[2].id # arg[1].id
    /\ res.kind = "isDeleted element present"

(***************************************************************************)
(* Claims about instantiate_library_item                                   *)
(***************************************************************************)
\* the ids, group ids and references (containerId, boundElements, start and
\* end binding) that stand in the elements els
IdValues(els) ==
    UNION {{els[k].id, els[k].containerId, els[k].startBinding, els[k].endBinding}
             \cup {els[k].groupIds[j] : j \in 1..Len(els[k].groupIds)}
             \cup {els[k].boundElements[j].id : j \in 1..Len(els[k].boundElements)} : k \in 1..Len(els)} \ {NoId}

CatalogValues == UNION {IdValues(bld.library.items[n].elements) : n \in 1..Len(bld.library.items)}

\* every element of the fragment has an id, and every reference of the
\* fragment names an element of the fragment
SelfContained(item) ==
    LET els == item.elements
        ids == {els[k].id : k \in 1..Len(els)}
    IN  /\ NoId \notin ids
        /\ \A k \in 1..Len(els) :
              /\ {els[k].containerId, els[k].startBinding, els[k].endBinding} \ {NoId} \subseteq ids
              /\ \A j \in 1..Len(els[k].boundElements) : els[k].boundElements[j].id \in ids

\* the instance at p shares no id, group id or reference with the catalog or
\* with another instance
Isolated(p) ==
    /\ IdValues(bld.instances[p].group) \cap CatalogValues = {}
    /\ \A q \in 1..Len(bld.instances) :
          q # p => IdValues(bld.instances[p].group) \cap IdValues(bld.instances[q].group) = {}

\* the elements of the instance are those of the fragment, one for one, with
\* ids, group ids and references renamed alike throughout
RenamedAlike(p) ==
    LET old == bld.library.items[bld.instances[p].item].elements
        new == bld.instances[p].group
    IN  /\ Len(new) = Len(old)
        /\ \A k, m \in 1..Len(old) :
              /\ (old[k].id = old[m].id) => (new[k].id = new[m].id)
              /\ (old[k].startBinding = old[m].id) => (new[k].startBinding = new[m].id)
              /\ (old[k].endBinding = old[m].id) => (new[k].endBinding = new[m].id)
              /\ (old[k].containerId = old[m].id) => (new[k].containerId = new[m].id)
              /\ \A j \in 1..Len(old[k].boundElements) :
                    (old[k].boundElements[j].id = old[m].id) => (new[k].boundElements[j].id = new[m].id)

\* C24 as stated: for every fragment of the catalog, no id, group id or
\* reference of an instance is one of another instance, of the same or of
\* another fragment, or one of the catalog.
C24_InstancesIsolated ==
    pc = "instantiate" => \A p \in 1..Len(bld.instances) : Isolated(p)

\* C24: the same for the instances of a fragment whose elements all have ids
\* and whose references all name elements of the fragment, with the ids and
\* references renamed alike throughout the instance; an element without id
\* stays without, and a reference to an id the fragment does not hold is
\* copied as it is.
C24_SelfContainedIsolated ==
    pc = "instantiate" =>
        \A p \in 1..Len(bld.instances) :
            SelfContained(bld.library.items[bld.instances[p].item]) => (Isolated(p) /\ RenamedAlike(p))

\* the fragment with the bound arrow has been instantiated twice
C24_Witness ==
    /\ pc = "instantiate" /\ Len(bld.instances) = 2
    /\ bld.library.items[bld.instances[1].item] = Item_flow /\ bld.instances[2].item = bld.instances[1].item
    /\ \E k \in 1..Len(bld.instances[2].group) :
          /\ bld.instances[2].group[k].startBinding # NoId
          /\ bld.instances[2].group[k].startBinding = bld.instances[2].group[1].id
          /\ bld.instances[2].group[k].startBinding # bld.instances[1].group[1].id

\* the call at p, the fragment it copied and the texts of that fragment
InstanceItem(p) == bld.library.items[bld.instances[p].item].elements
InstanceTexts(p) == {k \in 1..Len(InstanceItem(p)) : InstanceItem(p)[k].type = "text"}
\* the call at p was given a label override that is not blank
Overridden(p) == Strip(bld.instances[p].label) # <<>>
\* the texts of the instance that do not read as in the fragment
Rewritten(p) == {k \in InstanceTexts(p) : bld.instances[p].group[k].text # InstanceItem(p)[k].text}

\* the texts a choice by lowest y, then greatest width, can fall on: taken
\* among all texts, or among the texts within a container when there are any
TopmostWidest(old, among) ==
    {t \in among : \A j \in among : old[t].y < old[j].y \/ (old[t].y = old[j].y /\ old[t].width >= old[j].width)}
StatedTargets(p) ==
    TopmostWidest(InstanceItem(p), InstanceTexts(p))
        \cup TopmostWidest(InstanceItem(p), {k \in InstanceTexts(p) : InstanceItem(p)[k].containerId # NoId})

\* C25 as stated: a label override on an instance with several texts rewrites
\* one text, the one with the lowest y, the widest among those tied on y, with
\* texts in a container preferred; the other texts keep their content.
C25_LabelOnTopmostText ==
    pc = "instantiate" =>
        \A p \in 1..Len(bld.instances) :
            (Overridden(p) /\ Cardinality(InstanceTexts(p)) > 1) =>
                \E t \in StatedTargets(p) : Rewritten(p) = {t}

\* two for a text that reads as a placeholder word, one more for a text
\* within a container
CaptionScore(el) ==
    (IF Lower(Strip(el.text)) \in PreferredCaptions THEN 2 ELSE 0) + (IF el.containerId # NoId THEN 1 ELSE 0)

\* the text of the highest score, the widest of them, the first of those in
\* the order of the fragment
ScoredTarget(old, texts) ==
    CHOOSE t \in texts : \A j \in texts \ {t} :
        \/ CaptionScore(old[t]) > CaptionScore(old[j])
        \/ CaptionScore(old[t]) = CaptionScore(old[j]) /\ old[t].width > old[j].width
        \/ CaptionScore(old[t]) = CaptionScore(old[j]) /\ old[t].width = old[j].width /\ t < j

\* C25: a label override that is not blank rewrites one text of the instance:
\* the one that scores highest (a placeholder word counts two, a containerId
\* one), the widest among equal scores, the first of these in the fragment; its
\* y plays no part.  It then reads as the trimmed label, and the other texts
\* keep their content; a blank label or none rewrites nothing.
C25_LabelOnBestScoredText ==
    pc = "instantiate" =>
        \A p \in 1..Len(bld.instances) :
            IF Overridden(p) /\ InstanceTexts(p) # {}
            THEN /\ Rewritten(p) = {ScoredTarget(InstanceItem(p), InstanceTexts(p))}
                 /\ \A t \in Rewritten(p) : bld.instances[p].group[t].text = Strip(bld.instances[p].label)
            ELSE Rewritten(p) = {}

\* the card was instantiated with a label, and its middle button reads as the
\* label while the captions above and below it read as before
C25_Witness ==
    /\ pc = "instantiate" /\ Len(bld.instances) >= 1
    /\ bld.library.items[bld.instances[1].item] = Item_card
    /\ bld.instances[1].label = <<"G", "o">>
    /\ bld.instances[1].group[6].text = <<"G", "o">>
    /\ bld.instances[1].group[1].text = <<"H","e","a","d","i","n","g">>
    /\ bld.instances[1].group[8].text = <<"N", "o">>

\* the difference of the coordinates of the elements k and m is in the
\* instance what it is in the fragment
SameOffsets(old, new, k, m) ==
    /\ (new[m].x - new[k].x) * old[k].xfrac[2] * old[m].xfrac[2]
           = raw_coord(old[m].x, old[m].xfrac).num * old[k].xfrac[2]
               - raw_coord(old[k].x, old[k].xfrac).num * old[m].xfrac[2]
    /\ (new[m].y - new[k].y) * old[k].yfrac[2] * old[m].yfrac[2]
           = raw_coord(old[m].y, old[m].yfrac).num * old[k].yfrac[2]
               - raw_coord(old[k].y, old[k].yfrac).num * old[m].yfrac[2]

\* C26: after instantiate_library_item(item, x, y) without label override the
\* bounding box of the instance has its top-left corner at (snap(x), snap(y)),
\* and any two elements lie apart in x and in y exactly as they do in the
\* fragment.
C26_PlacedWithOffsetsKept ==
    pc = "instantiate" =>
        \A p \in 1..Len(bld.instances) :
            bld.instances[p].label = <<>> =>
                /\ bbox_for_elements(bld.instances[p].group).x0 = snap(bld.b, bld.instances[p].x, 1)
                /\ bbox_for_elements(bld.instances[p].group).y0 = snap(bld.b, bld.instances[p].y, 1)
                /\ \A k, m \in 1..Len(InstanceItem(p)) :
                      SameOffsets(InstanceItem(p), bld.instances[p].group, k, m)

(***************************************************************************)
(* Claims about ExcalidrawLibrary.find                                     *)
(***************************************************************************)
\* the query as find reads it, and the names of the catalog in lower case
FindQuery == Lower(Strip(arg.query))
FindName(i) == Lower(arg.library.items[i].name)
NameEquals == {i \in 1..Len(arg.library.items) : FindName(i) = FindQuery}
NameContains ==
    {i \in 1..Len(arg.library.items) :
        \E k \in 1..(Len(FindName(i)) - Len(FindQuery) + 1) : SubSeq(FindName(i), k, k + Len(FindQuery) - 1) = FindQuery}

\* C27: find(query) returns a fragment whose name equals the query but for
\* case when there is one; else the first fragment in catalog order whose name
\* contains the query but for case; else nothing; and nothing for a blank
\* query.
C27_FindByNameThenSubstring ==
    pc = "done" =>
        IF FindQuery = <<>> THEN res = <<0>>
        ELSE IF NameEquals # {} THEN res[1] \in NameEquals
        ELSE IF NameContains # {} THEN res[1] = Min(NameContains)
        ELSE res = <<0>>

\* the query, in another case and with a blank behind it, is the name of the
\* second fragment and a part of the name of the first, and the second is found
C27_Witness ==
    /\ pc = "done"
    /\ arg.query = <<"A", "B", " ">>
    /\ Len(arg.library.items) >= 2
    /\ arg.library.items[1].name = <<"x", "a", "b">> /\ arg.library.items[2].name = <<"a", "b">>
    /\ res = <<2>>

\* the turn of the loop that is about to run is for a list phrase, and no
\* fragment stands in for the list
ListTurn ==
    /\ pc = "phrase" /\ bld.i <= Len(bld.phrases) /\ ~ bld.st.stop
    /\ parse_component(bld.phrases[bld.i]).type = "list"
    /\ \/ ~ (bld.env.prefer_library /\ bld.env.library.loaded)
       \/ pick_library_item_for_component(bld.env.library, "list", Strip(parse_component(bld.phrases[bld.i]).value)) = 0
ListItems == split_items(Strip(parse_component(bld.phrases[bld.i]).value))
ListRows == MinOf(Len(ListItems), 7)

\* the elements of new but for a closing "(more omitted...)" caption
WithoutOmitted(new) ==
    IF new # <<>> /\ new[Len(new)].text = WORD.more_omitted THEN SubSeq(new, 1, Len(new) - 1) ELSE new

\* new is the rectangle of a list, then for each of the rows a caption reading
\* the item of the row, with a rule before every caption but the first
ListOfRows(new, items, rows) ==
    /\ Len(new) = 1 + rows + (rows - 1)
    /\ new[1].type = "rectangle" /\ new[1].seerLabel = "list"
    /\ IsPlainCaption(new[2], items[1])
    /\ \A k \in 2..rows : new[2 * k - 1].type = "line" /\ IsPlainCaption(new[2 * k], items[k])

\* C28: a list phrase of n items laid out without a fragment gives min(n, 7)
\* row captions with one rule between consecutive rows, in a rectangle of the
\* height of a list of the rendered rows: of 7 rows at most, however many items
\* there are.
C28_ListSizedForRows ==
    [][(ListTurn /\ bld'.i = bld.i + 1 /\ ListItems # <<>>) =>
          /\ ListOfRows(WithoutOmitted(Added(bld.st.els, bld'.st.els)), ListItems, ListRows)
          /\ Added(bld.st.els, bld'.st.els)[1].height = list_height(bld.env.b, SubSeq(ListItems, 1, ListRows))]_vars

\* the bounding box of el lies within box
Inside(el, box) ==
    /\ bbox_for_element(el).x0 >= box.x0 /\ bbox_for_element(el).x1 <= box.x1
    /\ bbox_for_element(el).y0 >= box.y0 /\ bbox_for_element(el).y1 <= box.y1

\* C29: every element emitted for a screen lies inside the boundary rectangle
\* of the screen (the first element of the screen): nothing stands below its
\* bottom edge or reaches sideways into the gap or the next screen, whatever
\* the phrases, runs of text and rows of chips included.
C29_ElementsInsideScreen ==
    pc \in {"phrase", "done"} =>
        \A k \in 2..Len(bld.st.els) : Inside(bld.st.els[k], bbox_for_element(bld.st.els[1]))

\* the boundary rectangles of the screens of the returned document, in the
\* order of the document
ScreenRects == keep_where(Doc, [k \in 1..Len(Doc) |-> Doc[k].type = "rectangle" /\ Doc[k].seerLabel = "screen"])

\* C30: the returned document holds one boundary rectangle for every screen,
\* in screen order from left to right; no two of them overlap, and each lies
\* within the canvas [0, canvas_width] x [0, canvas_height] of the metadata,
\* for any number of screens and any screen size, although the rectangles are
\* snapped to the grid and the canvas is computed from the size as given.
C30_ScreensTileCanvas ==
    Returned =>
        /\ Len(ScreenRects) = Len(out.meta.screens)
        /\ \A i \in 1..Len(ScreenRects) :
              /\ ScreenRects[i].width >= 0 /\ ScreenRects[i].height >= 0
              /\ ScreenRects[i].x >= 0 /\ ScreenRects[i].x + ScreenRects[i].width <= out.meta.layout.canvas_width
              /\ ScreenRects[i].y >= 0 /\ ScreenRects[i].y + ScreenRects[i].height <= out.meta.layout.canvas_height
              /\ \A j \in (i + 1)..Len(ScreenRects) : ScreenRects[i].x + ScreenRects[i].width <= ScreenRects[j].x

\* four screens of a size given by the caller stand in the returned document,
\* each rectangle wider than the size given
C30_Witness ==
    /\ Returned
    /\ inp.size = <<30, 50>>
    /\ Len(ScreenRects) = 4
    /\ \A i \in 1..4 : ScreenRects[i].width > 30

(***************************************************************************)
(* Claims about main                                                       *)
(***************************************************************************)
Exited == pc = "exited"
Wrote(line) == \E k \in 1..Len(res.stderr) : res.stderr[k] = line

\* the run was asked to use a catalog, and at its path there is no file, or a
\* file that cannot be read as a catalog
CatalogUnavailable == ~ arg.no_library /\ ~ (arg.library_file.exists /\ arg.library_file.parses)

\* C14: when the catalog file is missing or cannot be read or parsed, main
\* does not fail for it, builds with primitives only (no element comes from a
\* fragment, the library usage total is zero) and writes a warning, in the
\* missing and in the unreadable case alike.
C14_CatalogDegradation ==
    (Exited /\ CatalogUnavailable /\ usage_error(arg) = "") =>
        /\ Wrote("warning: failed to load library")
        /\ res.code = 0 \/ ~ arg.out_writable \/ out.outcome = "raised"
        /\ out.outcome = "returned" =>
              /\ out.meta.library_used.elements_total = 0
              /\ \A k \in 1..Len(Doc) : Doc[k].seerSource # "library"

\* --size reads as a width and a height of two to five digits around an x
WellFormedSize(sz) ==
    /\ size_matches_at(sz, 1)
    /\ LET j == skip_blanks(sz, skip_blanks(sz, 1 + digit_run(sz, 1)) + 1)
       IN  digit_run(sz, j) <= 5 /\ j + digit_run(sz, j) = Len(sz) + 1
    /\ infer_size(sz) # NoScreenSize

\* the text main would work on is empty
EmptyInput == input_text(arg) = <<>>

\* C15: main returns 2 and writes no output document for each usage error
\* (--text and --spec both given, a --spec file that cannot be read, an empty
\* input text, a malformed --size); it ends with a status other than 0 and
\* writes no output document when validation is enabled and fails; it returns
\* 0 only after the output document has been written.
C15_ExitCodes ==
    Exited =>
        /\ (\/ arg.text # NoArg /\ arg.spec # NoArg
            \/ Given(arg.spec) /\ SpecFileAt(arg.spec) = Unreadable
            \/ EmptyInput
            \/ arg.size # NoArg /\ ~ WellFormedSize(arg.size)) => (res.code = 2 /\ ~ res.written)
        /\ (inp # NoInput /\ inp.strict /\ out.outcome = "raised") => (res.code # 0 /\ ~ res.written)
        /\ res.code = 0 => res.written

(***************************************************************************)
(* Claims about the component classifier                                   *)
(***************************************************************************)
\* the phrase begins with "add " or "create ", in any case
BeginsAddCreate(p) == StartsWith(Lower(p), WORD.add) \/ StartsWith(Lower(p), WORD.create)

\* "button", in any case, stands in the phrase as a word of its own
HasWordButton(p) ==
    \E i \in 1..(Len(p) - 5) :
        /\ Lower(SubSeq(p, i, i + 5)) = TypeWord("button")
        /\ (i = 1 \/ ~IsWordChar(p[i - 1]))
        /\ (i + 6 > Len(p) \/ ~IsWordChar(p[i + 6]))

\* the phrase without its words "button", trimmed of blanks and punctuation;
\* the phrase itself when nothing else is left
WithoutWordButton(p) ==
    LET label(rest) == IF rest # <<>> THEN rest ELSE p
    IN  label(StripSet(remove_words(p, 1, <<TypeWord("button")>>, FALSE), {" ", ":", ",", "-"}))

\* C11: _parse_component gives every phrase one (type, label) pair; the type
\* is one of COMPONENT_TYPES; a typed prefix decides first, then "add "/"create "
\* (text with the rest of the phrase), then the word "button" (button with that
\* word removed), and any other phrase is (text, phrase).
C11_ClassifierRules ==
    pc = "done" =>
        /\ DOMAIN res = {"type", "value"}
        /\ res.type \in TypeNames
        /\ IF prefix_matches(arg) # {} THEN res.type = COMPONENT_TYPES[Min(prefix_matches(arg))].name
           ELSE IF BeginsAddCreate(arg)
           THEN res = [type |-> "text", value |-> Strip(Drop(arg, IF StartsWith(Lower(arg), WORD.add) THEN 3 ELSE 6))]
           ELSE IF HasWordButton(arg) THEN res = [type |-> "button", value |-> WithoutWordButton(arg)]
           ELSE res = [type |-> "text", value |-> arg]

====
